---- MODULE Spec2Model ----
(***************************************************************************)
(* State-machine model of the view components of the healthcare consent    *)
(* front end.                                                              *)
(*                                                                         *)
(*   ConsentManagement  (src/unnamed/part_000)                             *)
(*   PatientList        (src/frontend/src/components/PatientList.js)       *)
(*   PatientDetail      (src/unnamed/part_001)                             *)
(*   TransactionHistory (src/frontend/src/components/TransactionHistory.js)*)
(*   StatsDashboard     (src/frontend/src/components/StatsDashboard.js)    *)
(*                                                                         *)
(* Each component is a React function component: its useState cells are    *)
(* the fields of one record variable (cm, pl), every event handler is one  *)
(* action, and every `await` splits an async handler into the action that  *)
(* runs up to the await and one action per way the awaited promise can     *)
(* settle.  An async handler keeps the values of the render it was created *)
(* in (its closure); a flow record carries those captured values.          *)
(* State updates made in one handler are committed together and the        *)
(* effects that depend on them run before the next event is handled        *)
(* (React 18 batching), so a handler together with the effect it triggers  *)
(* is one action.                                                          *)
(***************************************************************************)
EXTENDS Integers, Sequences, FiniteSets, Bags, TLC

VARIABLES
    account,    \* ConsentManagement prop `account` (connected wallet or NULL)
    cm,         \* ConsentManagement useState cells
    cmFlows,    \* async handler invocations of ConsentManagement in flight
    cmLast,     \* the handler step that ran last: the calls it issued to
                \* apiService / signMessage and the alert it raised
    proposed,   \* the last showConfirmation request and the status displayed then
    pl,         \* PatientList useState cells (pagination: <<>> is null,
                \* <<p>> the pagination object p)
    plReqs,     \* getPatients requests of PatientList in flight
    plTimer,    \* the `timeout` of the debounced handleSearchChange
    plInput,    \* the text in the search input (NULL while it is not rendered)
    plKey,      \* the last keystroke in the search input: its value, its age,
                \* and whether Clear was pressed since
    plMounted,  \* whether PatientList is mounted
    plShown,    \* the getPatients request whose answer was applied last
                \* (<<>> before the first answer)
    plLast,     \* the PatientList step that ran last and the calls it issued
    pdId,       \* PatientDetail prop `patientId` (NULL while none is selected)
    pd,         \* PatientDetail useState cells (patient: <<>> is null / an
                \* empty value, <<p>> the patient object p)
    pdFlows,    \* fetchPatientData invocations in flight
    pdLast,     \* the PatientDetail step that ran last and the calls it issued
    row,        \* a transaction row of TransactionHistory as last rendered:
                \* the inputs (timestamp, the clock, the time zone, amount,
                \* currency) and the texts shown for them
    sd,         \* StatsDashboard useState cells (stats: <<>> is null, <<r>> the
                \* response r) and whether its getStats request is in flight
    pw,         \* the page-number buttons of PatientList as last rendered:
                \* the currentPage and totalPages they were rendered from
                \* and the page numbers they show
    card,       \* a consent card of ConsentManagement as last rendered: the
                \* status and purpose of its consent and the badge classes
    th,         \* TransactionHistory prop `account` and useState cells
    thReqs      \* getTransactions requests of TransactionHistory in flight

cmVars == <<account, cm, cmFlows, cmLast, proposed>>

plVars == <<pl, plReqs, plTimer, plInput, plKey, plMounted, plShown, plLast>>

pdVars == <<pdId, pd, pdFlows, pdLast>>

\* the views that are modelled on their own
thVars == <<th, thReqs>>

viewVars == <<pw, pdVars, row, sd, card, thVars>>

\* what the actions of one component leave alone
notCm == <<plVars, viewVars>>

notPl == <<cmVars, viewVars>>

vars == <<cmVars, plVars, viewVars>>

NULL == "null"

(***************************************************************************)
(* Bounds of the model.                                                    *)
(***************************************************************************)
\* async flows of ConsentManagement (fetches, confirms, submissions) that
\* may be in flight together
MaxInFlight == 2

(***************************************************************************)
(* Input domains.                                                          *)
(***************************************************************************)
ConsentStatuses == {"pending", "active", "revoked", "expired"}
\* the filter buttons exercised (the view has one per status and "all")
FilterStatuses == {"all", "pending", "revoked"}
Accounts == {"0xABCD"}
PatientIdInputs == {"", "P-001"}
PurposeInputs == {"", "Research Study Participation"}
Signatures == {"0xSIG"}
ErrMessages == {"Network Error"}

\* what getConsents can answer: the consents in backend order, ids unique.
\* A backend whose consents are all closed (revoked, expired) ...
ClosedLists ==
    {<<>>,
     <<[id |-> "c1", status |-> "revoked"]>>,
     <<[id |-> "c1", status |-> "expired"], [id |-> "c2", status |-> "revoked"]>>}

\* ... and one that also holds pending and active consents
ConsentLists ==
    {<<>>}
    \cup {<<[id |-> "c1", status |-> s]>> : s \in {"pending", "expired"}}
    \cup {<<[id |-> "c1", status |-> "active"],
            [id |-> "c2", status |-> "revoked"]>>}

\* a settled getConsents promise: fulfilled with a list out of `lists`, or
\* rejected with err.message
FetchResponses(lists) ==
    {[ok |-> TRUE, consents |-> l, message |-> NULL] : l \in lists}
    \cup {[ok |-> FALSE, consents |-> <<>>, message |-> m] : m \in ErrMessages}

EmptyForm == [patientId |-> "", purpose |-> ""]

(***************************************************************************)
(* ConsentManagement: state after construction and the mount effect.       *)
(***************************************************************************)
Flow(kind, pc, filter) ==
    [kind |-> kind, pc |-> pc, filterStatus |-> filter,
     consentId |-> NULL, newStatus |-> NULL,
     formData |-> EmptyForm, account |-> NULL, message |-> NULL]

InFlight == BagToSet(cmFlows)

CanStartFlow == BagCardinality(cmFlows) < MaxInFlight

Started(f) == cmFlows (+) SetToBag({f})

Ended(f) == cmFlows (-) SetToBag({f})

Call(api, args) == [api |-> api, args |-> args]

\* response: <<>>, or <<r>> when the step applied the settled getConsents
\* promise r
Last(op, calls, alert) ==
    [op |-> op, calls |-> calls, alert |-> alert, response |-> <<>>]

Answered(op, alert, r) == [Last(op, <<>>, alert) EXCEPT !.response = <<r>>]

\* fetchConsents builds the getConsents arguments from the captured filter
getConsentsArgs(filter) == <<NULL, IF filter # "all" THEN filter ELSE NULL>>

getConsentsCall(filter) == Call("getConsents", getConsentsArgs(filter))

cmInitState ==
    [consents |-> <<>>, loading |-> TRUE, error |-> NULL, filterStatus |-> "all",
     showCreateForm |-> FALSE, formData |-> EmptyForm, processing |-> FALSE,
     showConfirmDialog |-> FALSE, selectedConsentId |-> NULL,
     selectedNewStatus |-> NULL]

cmInit ==
    /\ cm = cmInitState
    /\ cmFlows = SetToBag({Flow("fetch", "getConsents", "all")})
    /\ cmLast = Last("mount", <<getConsentsCall("all")>>, NULL)
    /\ proposed = [id |-> NULL, status |-> NULL, from |-> NULL]

(***************************************************************************)
(* ConsentManagement: what is rendered (the early returns of the render).  *)
(***************************************************************************)
\* `if (loading && consents.length === 0) return <Loading/>`
LoadingView == cm.loading /\ cm.consents = <<>>

\* `if (error && consents.length === 0) return <Error/> + Retry`
ErrorView == ~LoadingView /\ cm.error # NULL /\ cm.consents = <<>>

\* the main view: dialog, header, form, filters and the list
MainView == ~LoadingView /\ ~ErrorView

\* `{showCreateForm && account && <form onSubmit={handleCreateConsent}>}`
FormRendered == MainView /\ cm.showCreateForm /\ account # NULL

\* the status-change buttons a consent card renders for a displayed status
ActionButtons_revokedToo(status) ==
    IF status = "pending" THEN {"active", "revoked"}
    ELSE IF status = "active" \/ status = "revoked" THEN {"revoked"}
    ELSE {}

ActionButtons(status) ==
    IF status = "pending" THEN {"active", "revoked"}
    ELSE IF status = "active" THEN {"revoked"}
    ELSE {}

(***************************************************************************)
(* fetchConsents: the part before the await and the part after it.         *)
(***************************************************************************)
\* `err.message || fallback`
orElse(message, fallback) == IF message = "" THEN fallback ELSE message

fetchConsentsBegin(st) == [st EXCEPT !.loading = TRUE, !.error = NULL]

\* a settle that keeps a list that is already displayed
fetchConsentsSettle_keepsList(st, r) ==
    IF r.ok
    THEN [st EXCEPT !.consents = IF @ = <<>> THEN r.consents ELSE @,
                    !.loading = FALSE]
    ELSE [st EXCEPT !.error = orElse(r.message, "Failed to fetch consents"),
                    !.consents = <<>>, !.loading = FALSE]

fetchConsentsSettle(st, r) ==
    IF r.ok
    THEN [st EXCEPT !.consents = r.consents, !.loading = FALSE]
    ELSE [st EXCEPT !.error = orElse(r.message, "Failed to fetch consents"),
                    !.consents = <<>>, !.loading = FALSE]

\* a filter button: setFilterStatus(f); the effect on [filterStatus] then
\* calls the fetchConsents of the new render
SetFilterStatus(f) ==
    /\ MainView
    /\ f # cm.filterStatus
    /\ CanStartFlow
    /\ cm' = fetchConsentsBegin([cm EXCEPT !.filterStatus = f])
    /\ cmFlows' = Started(Flow("fetch", "getConsents", f))
    /\ cmLast' = Last("setFilterStatus", <<getConsentsCall(f)>>, NULL)
    /\ UNCHANGED <<account, proposed, notCm>>

\* the Retry button of the error view: onClick={fetchConsents}
Retry ==
    /\ ErrorView
    /\ CanStartFlow
    /\ cm' = fetchConsentsBegin(cm)
    /\ cmFlows' = Started(Flow("fetch", "getConsents", cm.filterStatus))
    /\ cmLast' = Last("retry", <<getConsentsCall(cm.filterStatus)>>, NULL)
    /\ UNCHANGED <<account, proposed, notCm>>

\* getConsents of an effect / Retry fetch settles
FetchSettled(f, r) ==
    /\ f \in InFlight /\ f.kind = "fetch" /\ f.pc = "getConsents"
    /\ cm' = fetchConsentsSettle(cm, r)
    /\ cmFlows' = Ended(f)
    /\ cmLast' = Answered("fetchSettled", NULL, r)
    /\ UNCHANGED <<account, proposed, notCm>>

(***************************************************************************)
(* The confirm dialog: showConfirmation, handleConfirm, handleCancel.      *)
(***************************************************************************)
resetDialog(st) ==
    [st EXCEPT !.showConfirmDialog = FALSE, !.selectedConsentId = NULL,
               !.selectedNewStatus = NULL]

updateConsentCall(consentId, newStatus) ==
    Call("updateConsent", <<consentId, [status |-> newStatus]>>)

confirmFlow(st) ==
    [Flow("confirm", "updateConsent", st.filterStatus)
        EXCEPT !.consentId = st.selectedConsentId,
               !.newStatus = st.selectedNewStatus]

\* a showConfirmation that commits at once, without waiting for Confirm
showConfirmation_commits(consentId, newStatus) ==
    /\ CanStartFlow
    /\ cm' = [cm EXCEPT !.selectedConsentId = consentId,
                        !.selectedNewStatus = newStatus,
                        !.showConfirmDialog = TRUE]
    /\ cmFlows' = Started(confirmFlow(cm'))
    /\ cmLast' = Last("showConfirmation",
                      <<updateConsentCall(consentId, newStatus)>>, NULL)

showConfirmation(consentId, newStatus) ==
    /\ cm' = [cm EXCEPT !.selectedConsentId = consentId,
                        !.selectedNewStatus = newStatus,
                        !.showConfirmDialog = TRUE]
    /\ cmFlows' = cmFlows
    /\ cmLast' = Last("showConfirmation", <<>>, NULL)

\* Approve / Reject / Revoke on the i-th displayed consent card
ClickStatusButton(i, newStatus) ==
    /\ MainView
    /\ i \in DOMAIN cm.consents
    /\ newStatus \in ActionButtons(cm.consents[i].status)
    /\ showConfirmation(cm.consents[i].id, newStatus)
    /\ proposed' = [id |-> cm.consents[i].id, status |-> newStatus,
                    from |-> cm.consents[i].status]
    /\ UNCHANGED <<account, notCm>>

handleConfirm ==
    IF cm.selectedConsentId = NULL \/ cm.selectedNewStatus = NULL
    THEN /\ UNCHANGED <<cm, cmFlows>>
         /\ cmLast' = Last("handleConfirm", <<>>, NULL)
    ELSE /\ CanStartFlow
         /\ cmFlows' = Started(confirmFlow(cm))
         /\ cmLast' = Last("handleConfirm",
                <<updateConsentCall(cm.selectedConsentId,
                                    cm.selectedNewStatus)>>, NULL)
         /\ cm' = cm

\* the dialog's Confirm button
ClickConfirm ==
    /\ MainView /\ cm.showConfirmDialog
    /\ handleConfirm
    /\ UNCHANGED <<account, proposed, notCm>>

\* updateConsent resolved: handleConfirm goes on to `await fetchConsents()`,
\* the fetchConsents of the render in which Confirm was clicked
UpdateResolved(f) ==
    /\ f \in InFlight /\ f.kind = "confirm" /\ f.pc = "updateConsent"
    /\ cm' = fetchConsentsBegin(cm)
    /\ cmFlows' = Ended(f) (+) SetToBag({[f EXCEPT !.pc = "getConsents"]})
    /\ cmLast' = Last("updateResolved", <<getConsentsCall(f.filterStatus)>>, NULL)
    /\ UNCHANGED <<account, proposed, notCm>>

\* updateConsent rejected: catch (alert), finally (reset the dialog)
UpdateRejected(f, m) ==
    /\ f \in InFlight /\ f.kind = "confirm" /\ f.pc = "updateConsent"
    /\ cm' = resetDialog(cm)
    /\ cmFlows' = Ended(f)
    /\ cmLast' = Last("updateRejected", <<>>, "Failed to update consent: " \o m)
    /\ UNCHANGED <<account, proposed, notCm>>

\* the refresh of handleConfirm settled: alert, finally (reset the dialog)
ConfirmRefreshSettled(f, r) ==
    /\ f \in InFlight /\ f.kind = "confirm" /\ f.pc = "getConsents"
    /\ cm' = resetDialog(fetchConsentsSettle(cm, r))
    /\ cmFlows' = Ended(f)
    /\ cmLast' = Answered("confirmDone",
                          "Consent status updated to " \o f.newStatus, r)
    /\ UNCHANGED <<account, proposed, notCm>>

\* a handleCancel that refreshes the list as handleConfirm does
handleCancel_refetches ==
    /\ CanStartFlow
    /\ cm' = fetchConsentsBegin(resetDialog(cm))
    /\ cmFlows' = Started(Flow("fetch", "getConsents", cm.filterStatus))
    /\ cmLast' = Last("handleCancel", <<getConsentsCall(cm.filterStatus)>>, NULL)

handleCancel ==
    /\ cm' = resetDialog(cm)
    /\ cmFlows' = cmFlows
    /\ cmLast' = Last("handleCancel", <<>>, NULL)

\* the dialog's Cancel button
ClickCancel ==
    /\ MainView /\ cm.showConfirmDialog
    /\ handleCancel
    /\ UNCHANGED <<account, proposed, notCm>>

(***************************************************************************)
(* The create-consent form and handleCreateConsent.                        *)
(***************************************************************************)
\* the header button `create-btn` (disabled={!account}) toggles the form
ToggleCreateForm ==
    /\ MainView /\ account # NULL
    /\ cm' = [cm EXCEPT !.showCreateForm = ~cm.showCreateForm]
    /\ cmLast' = Last("toggleCreateForm", <<>>, NULL)
    /\ UNCHANGED <<account, cmFlows, proposed, notCm>>

\* `Create Your First Consent`, rendered in the empty list
CreateFirst ==
    /\ MainView /\ cm.consents = <<>> /\ account # NULL /\ ~cm.showCreateForm
    /\ cm' = [cm EXCEPT !.showCreateForm = TRUE]
    /\ cmLast' = Last("createFirst", <<>>, NULL)
    /\ UNCHANGED <<account, cmFlows, proposed, notCm>>

\* onChange of the Patient ID input (disabled={processing})
ChangePatientId(v) ==
    /\ FormRendered /\ ~cm.processing
    /\ v # cm.formData.patientId
    /\ cm' = [cm EXCEPT !.formData.patientId = v]
    /\ cmLast' = Last("changeFormData", <<>>, NULL)
    /\ UNCHANGED <<account, cmFlows, proposed, notCm>>

\* onChange of the Purpose select (disabled={processing})
ChangePurpose(v) ==
    /\ FormRendered /\ ~cm.processing
    /\ v # cm.formData.purpose
    /\ cm' = [cm EXCEPT !.formData.purpose = v]
    /\ cmLast' = Last("changeFormData", <<>>, NULL)
    /\ UNCHANGED <<account, cmFlows, proposed, notCm>>

\* the wallet connects, disconnects: the parent passes a new `account` prop
AccountChanged(a) ==
    /\ a # account
    /\ account' = a
    /\ cmLast' = Last("accountChanged", <<>>, NULL)
    /\ UNCHANGED <<cm, cmFlows, proposed, notCm>>

\* the two early returns of handleCreateConsent: the alert raised, or NULL
\* when the submission goes on
createValidation_noPurposeCheck(acct, fd) ==
    IF acct = NULL THEN "Please connect your wallet first"
    ELSE IF fd.patientId = "" THEN "Please fill in all required fields"
    ELSE NULL

createValidation(acct, fd) ==
    IF acct = NULL THEN "Please connect your wallet first"
    ELSE IF fd.patientId = "" \/ fd.purpose = ""
         THEN "Please fill in all required fields"
    ELSE NULL

\* the message that is signed
consentMessage_swapped(purpose, patientId) ==
    "I consent to: " \o patientId \o " for patient: " \o purpose

consentMessage(purpose, patientId) ==
    "I consent to: " \o purpose \o " for patient: " \o patientId

createFlow(st, acct) ==
    [Flow("create", "signMessage", st.filterStatus)
        EXCEPT !.formData = st.formData,
               !.account = acct,
               !.message = consentMessage(st.formData.purpose,
                                          st.formData.patientId)]

consentData(f, signature) ==
    [patientId |-> f.formData.patientId,
     purpose |-> f.formData.purpose,
     patientWalletAddress |-> f.account,
     signature |-> signature,
     message |-> f.message]

handleCreateConsent ==
    IF createValidation(account, cm.formData) # NULL
    THEN /\ UNCHANGED <<cm, cmFlows>>
         /\ cmLast' = Last("handleCreateConsent", <<>>,
                           createValidation(account, cm.formData))
    ELSE /\ CanStartFlow
         /\ cm' = [cm EXCEPT !.processing = TRUE]
         /\ cmFlows' = Started(createFlow(cm, account))
         /\ cmLast' = Last("handleCreateConsent",
                <<Call("signMessage", <<createFlow(cm, account).message>>)>>,
                NULL)

\* a click on `Sign & Create Consent` (disabled={processing}); the browser
\* holds the submit back while a `required` field is empty
SubmitForm ==
    /\ FormRendered /\ ~cm.processing
    /\ cm.formData.patientId # "" /\ cm.formData.purpose # ""
    /\ handleCreateConsent
    /\ UNCHANGED <<account, proposed, notCm>>

\* a submit event dispatched on the form itself reaches the onSubmit handler
\* whatever the fields hold and whatever the button's state
DispatchSubmit ==
    /\ FormRendered
    /\ handleCreateConsent
    /\ UNCHANGED <<account, proposed, notCm>>

\* signMessage resolved: build consentData, call apiService.createConsent
SignResolved(f, signature) ==
    /\ f \in InFlight /\ f.kind = "create" /\ f.pc = "signMessage"
    /\ cmFlows' = Ended(f) (+) SetToBag({[f EXCEPT !.pc = "createConsent"]})
    /\ cmLast' = Last("signResolved",
           <<Call("createConsent", <<consentData(f, signature)>>)>>, NULL)
    /\ UNCHANGED <<account, cm, proposed, notCm>>

\* a signing failure that is not noticed: the flow goes on without signature
SignRejected_continues(f, m) ==
    /\ f \in InFlight /\ f.kind = "create" /\ f.pc = "signMessage"
    /\ cmFlows' = Ended(f) (+) SetToBag({[f EXCEPT !.pc = "createConsent"]})
    /\ cmLast' = Last("signRejected",
           <<Call("createConsent", <<consentData(f, NULL)>>)>>, NULL)
    /\ UNCHANGED <<account, cm, proposed, notCm>>

\* a signing failure after which processing is left on
SignRejected_keepsProcessing(f, m) ==
    /\ f \in InFlight /\ f.kind = "create" /\ f.pc = "signMessage"
    /\ cmFlows' = Ended(f)
    /\ cmLast' = Last("signRejected", <<>>,
           "Failed to create consent: " \o orElse(m, "Unknown error"))
    /\ UNCHANGED <<account, cm, proposed, notCm>>

\* signMessage rejected: catch (alert), finally (processing off)
SignRejected(f, m) ==
    /\ f \in InFlight /\ f.kind = "create" /\ f.pc = "signMessage"
    /\ cm' = [cm EXCEPT !.processing = FALSE]
    /\ cmFlows' = Ended(f)
    /\ cmLast' = Last("signRejected", <<>>,
           "Failed to create consent: " \o orElse(m, "Unknown error"))
    /\ UNCHANGED <<account, proposed, notCm>>

\* createConsent resolved: `await fetchConsents()`
CreateResolved(f) ==
    /\ f \in InFlight /\ f.kind = "create" /\ f.pc = "createConsent"
    /\ cm' = fetchConsentsBegin(cm)
    /\ cmFlows' = Ended(f) (+) SetToBag({[f EXCEPT !.pc = "getConsents"]})
    /\ cmLast' = Last("createResolved", <<getConsentsCall(f.filterStatus)>>, NULL)
    /\ UNCHANGED <<account, proposed, notCm>>

\* a submission failure after which the form is reset all the same
CreateRejected_resetsForm(f, m) ==
    /\ f \in InFlight /\ f.kind = "create" /\ f.pc = "createConsent"
    /\ cm' = [cm EXCEPT !.processing = FALSE, !.formData = EmptyForm,
                        !.showCreateForm = FALSE]
    /\ cmFlows' = Ended(f)
    /\ cmLast' = Last("createRejected", <<>>,
           "Failed to create consent: " \o orElse(m, "Unknown error"))
    /\ UNCHANGED <<account, proposed, notCm>>

\* createConsent rejected: catch (alert), finally (processing off)
CreateRejected(f, m) ==
    /\ f \in InFlight /\ f.kind = "create" /\ f.pc = "createConsent"
    /\ cm' = [cm EXCEPT !.processing = FALSE]
    /\ cmFlows' = Ended(f)
    /\ cmLast' = Last("createRejected", <<>>,
           "Failed to create consent: " \o orElse(m, "Unknown error"))
    /\ UNCHANGED <<account, proposed, notCm>>

\* the refresh of handleCreateConsent settled: reset and hide the form,
\* alert, finally (processing off)
CreateRefreshSettled(f, r) ==
    /\ f \in InFlight /\ f.kind = "create" /\ f.pc = "getConsents"
    /\ cm' = [fetchConsentsSettle(cm, r) EXCEPT !.formData = EmptyForm,
                                                !.showCreateForm = FALSE,
                                                !.processing = FALSE]
    /\ cmFlows' = Ended(f)
    /\ cmLast' = Answered("createDone", "Consent created successfully!", r)
    /\ UNCHANGED <<account, proposed, notCm>>

(***************************************************************************)
(* PatientList (src/frontend/src/components/PatientList.js).               *)
(***************************************************************************)
\* getPatients requests that may be in flight together
MaxRequests == 2

\* the step of the clock, in ms
TickMs == 100

\* debounce(..., 300)
wait == 300

\* apiService.getPatients(currentPage, 10, searchTerm)
pageSize == 10

\* Math.min(5, pagination.totalPages) page-number buttons
maxPageButtons == 5

SearchInputs == {"", "ann"}
PatientLists == {<<>>, <<"p1">>}
TotalPagesAnswers == {0, 2, 3}

\* the arguments handlePageChange is tried on
PageArgs == -1..5

Min(a, b) == IF a < b THEN a ELSE b

PlLast(op, calls, arg) == [op |-> op, calls |-> calls, arg |-> arg]

getPatientsCall(page, term) == Call("getPatients", <<page, pageSize, term>>)

Request(page, term) == [page |-> page, term |-> term]

\* what getPatients can answer to request q: a page of patients with its
\* pagination block, or a rejection with err.message
PatientsResponses(q) ==
    {[ok |-> TRUE, patients |-> ps, message |-> NULL,
      pagination |-> <<[limit |-> pageSize, page |-> q.page,
                        total |-> tp * pageSize, totalPages |-> tp]>>] :
         ps \in PatientLists, tp \in TotalPagesAnswers}
    \cup {[ok |-> FALSE, patients |-> <<>>, message |-> m, pagination |-> <<>>] :
             m \in ErrMessages}

plInitState ==
    [patients |-> <<>>, loading |-> TRUE, error |-> NULL, searchTerm |-> "",
     currentPage |-> 1, pagination |-> <<>>]

plInit ==
    /\ pl = plInitState
    /\ plReqs = SetToBag({Request(1, "")})
    /\ plTimer = [pending |-> FALSE, value |-> NULL, elapsed |-> 0]
    /\ plInput = NULL
    /\ plKey = [value |-> NULL, since |-> 0, cleared |-> FALSE]
    /\ plShown = <<>>
    /\ plMounted = TRUE
    /\ plLast = PlLast("mount", <<getPatientsCall(1, "")>>, 0)

\* `if (loading && patients.length === 0) return <Loading/>`
PlLoadingView == plMounted /\ pl.loading /\ pl.patients = <<>>

\* `if (error && patients.length === 0) return <Error/> + Retry`
PlErrorView ==
    /\ plMounted
    /\ ~PlLoadingView /\ pl.error # NULL /\ pl.patients = <<>>

\* the main view: the search input, Clear, the list
MainViewOf(st) ==
    /\ ~(st.loading /\ st.patients = <<>>)
    /\ ~(st.error # NULL /\ st.patients = <<>>)

PlMainView == plMounted /\ MainViewOf(pl)

\* <input onChange={handleSearch} defaultValue={searchTerm}/>: the input is
\* uncontrolled; it keeps its text while it stays rendered and starts from
\* searchTerm each time the main view is rendered anew
InputRendered ==
    plInput' = IF ~MainViewOf(pl') THEN NULL
               ELSE IF MainViewOf(pl) THEN plInput
               ELSE pl'.searchTerm

\* `{pagination && pagination.totalPages > 1 && <div className="pagination">}`
\* inside the non-empty list
PaginationRendered ==
    /\ PlMainView
    /\ pl.patients # <<>>
    /\ pl.pagination # <<>>
    /\ pl.pagination[1].totalPages > 1

CanStartRequest == BagCardinality(plReqs) < MaxRequests

\* fetchPatients up to its await
fetchPatientsBegin(st) == [st EXCEPT !.loading = TRUE, !.error = NULL]

\* fetchPatients after its await
fetchPatientsSettle(st, r) ==
    IF r.ok
    THEN [st EXCEPT !.patients = r.patients,
                    !.pagination = <<[limit |-> r.pagination[1].limit,
                                      page |-> r.pagination[1].page,
                                      total |-> r.pagination[1].total,
                                      totalPages |-> r.pagination[1].totalPages]>>,
                    !.loading = FALSE]
    ELSE [st EXCEPT !.error = orElse(r.message, "Failed to fetch patients"),
                    !.patients = <<>>, !.pagination = <<>>, !.loading = FALSE]

\* One handler's setSearchTerm / setCurrentPage, committed together: when
\* currentPage or searchTerm changed, fetchPatients (useCallback on
\* [currentPage, searchTerm]) is a new function and the effect on
\* [fetchPatients] calls it; when neither changed, nothing is rendered.
setQuery(page, term, op, arg) ==
    IF page = pl.currentPage /\ term = pl.searchTerm
    THEN /\ UNCHANGED <<pl, plReqs>>
         /\ plLast' = PlLast(op, <<>>, arg)
    ELSE /\ CanStartRequest
         /\ pl' = fetchPatientsBegin(
                      [pl EXCEPT !.currentPage = page, !.searchTerm = term])
         /\ plReqs' = plReqs (+) SetToBag({Request(page, term)})
         /\ plLast' = PlLast(op, <<getPatientsCall(page, term)>>, arg)

\* a getPatients request settles, in whatever order: nothing cancels or
\* discards the answer to a superseded request (the state updates of an
\* unmounted component are ignored)
PatientsSettled(q, r) ==
    /\ q \in BagToSet(plReqs)
    /\ r \in PatientsResponses(q)
    /\ pl' = IF plMounted THEN fetchPatientsSettle(pl, r) ELSE pl
    /\ plReqs' = plReqs (-) SetToBag({q})
    /\ plShown' = IF plMounted THEN <<q>> ELSE plShown
    /\ plLast' = PlLast("patientsSettled", <<>>, 0)
    /\ InputRendered
    /\ UNCHANGED <<plTimer, plKey, plMounted, notPl>>

\* the Retry button of the error view: onClick={fetchPatients}
PlRetry ==
    /\ PlErrorView
    /\ CanStartRequest
    /\ pl' = fetchPatientsBegin(pl)
    /\ plReqs' = plReqs (+) SetToBag({Request(pl.currentPage, pl.searchTerm)})
    /\ plLast' = PlLast("retry",
           <<getPatientsCall(pl.currentPage, pl.searchTerm)>>, 0)
    /\ InputRendered
    /\ UNCHANGED <<plTimer, plKey, plShown, plMounted, notPl>>

\* a debounce that lets a running timer run on and only swaps its argument
debounce_noRestart(timer, value) ==
    IF timer.pending
    THEN [timer EXCEPT !.value = value]
    ELSE [pending |-> TRUE, value |-> value, elapsed |-> 0]

\* executedFunction(value): clearTimeout(timeout); timeout = setTimeout(later, wait)
debounce(timer, value) == [pending |-> TRUE, value |-> value, elapsed |-> 0]

\* a keystroke in the search input (onChange: the text changed to `value`):
\* handleSearch -> handleSearchChange(value)
handleSearch(value) ==
    /\ PlMainView
    /\ value # plInput
    /\ plInput' = value
    /\ plTimer' = debounce(plTimer, value)
    /\ plKey' = [value |-> value, since |-> 0, cleared |-> FALSE]
    /\ plLast' = PlLast("handleSearch", <<>>, 0)
    /\ UNCHANGED <<pl, plReqs, plShown, plMounted, notPl>>

\* time passes while the timer runs
Tick ==
    /\ plTimer.pending
    /\ plTimer.elapsed < wait \/ plKey.since < wait
    /\ plTimer' = [plTimer EXCEPT !.elapsed = Min(wait, @ + TickMs)]
    /\ plKey' = [plKey EXCEPT !.since = Min(wait, @ + TickMs)]
    /\ plLast' = PlLast("tick", <<>>, 0)
    /\ UNCHANGED <<pl, plReqs, plInput, plShown, plMounted, notPl>>

\* the timer is due and `later` runs: clearTimeout(timeout); func(value),
\* that is setSearchTerm(value); setCurrentPage(1) (ignored, with no render
\* and no effect, once the component is unmounted)
DebounceFired ==
    /\ plTimer.pending
    /\ plTimer.elapsed >= wait
    /\ IF plMounted
       THEN setQuery(1, plTimer.value, "debounceFired", 0)
       ELSE /\ UNCHANGED <<pl, plReqs>>
            /\ plLast' = PlLast("debounceFired", <<>>, 0)
    /\ plTimer' = [plTimer EXCEPT !.pending = FALSE]
    /\ InputRendered
    /\ UNCHANGED <<plKey, plShown, plMounted, notPl>>

\* a Clear button that empties the search term and stays on the page
ClearSearch_keepsPage ==
    /\ PlMainView
    /\ pl.searchTerm # ""
    /\ setQuery(pl.currentPage, "", "clearSearch", 0)
    /\ plKey' = [plKey EXCEPT !.cleared = TRUE]
    /\ InputRendered
    /\ UNCHANGED <<plTimer, plShown, plMounted, notPl>>

\* the Clear button, rendered while searchTerm is not empty:
\* setSearchTerm(''); setCurrentPage(1); the `timeout` of the debounced
\* handleSearchChange and the text of the input are left as they are
ClearSearch ==
    /\ PlMainView
    /\ pl.searchTerm # ""
    /\ setQuery(1, "", "clearSearch", 0)
    /\ plKey' = [plKey EXCEPT !.cleared = TRUE]
    /\ InputRendered
    /\ UNCHANGED <<plTimer, plShown, plMounted, notPl>>

\* a handlePageChange that does not look at totalPages
handlePageChange_noUpperBound(st, newPage) ==
    IF newPage >= 1 THEN newPage ELSE st.currentPage

\* handlePageChange(newPage): the currentPage it leaves behind
\* (`newPage <= pagination?.totalPages` is false when pagination is null)
handlePageChange(st, newPage) ==
    IF newPage >= 1 /\ st.pagination # <<>>
       /\ newPage <= st.pagination[1].totalPages
    THEN newPage
    ELSE st.currentPage

\* a window that is not held back at the last pages
pageNumbers_noTailClamp(currentPage, totalPages) ==
    [k \in 1..Min(maxPageButtons, totalPages) |->
        IF totalPages <= 5 THEN (k - 1) + 1
        ELSE IF currentPage <= 3 THEN (k - 1) + 1
        ELSE currentPage - 2 + (k - 1)]

\* the page-number buttons: Array.from({length: Math.min(5, totalPages)}, ...)
pageNumbers(currentPage, totalPages) ==
    [k \in 1..Min(maxPageButtons, totalPages) |->
        IF totalPages <= 5 THEN (k - 1) + 1
        ELSE IF currentPage <= 3 THEN (k - 1) + 1
        ELSE IF currentPage >= totalPages - 2 THEN totalPages - 4 + (k - 1)
        ELSE currentPage - 2 + (k - 1)]

\* the pages the rendered pagination buttons ask for: Previous (disabled on
\* page 1), Next (disabled on the last page) and the page numbers
PageButtons ==
    (IF pl.currentPage # 1 THEN {pl.currentPage - 1} ELSE {})
    \cup (IF pl.currentPage # pl.pagination[1].totalPages
          THEN {pl.currentPage + 1} ELSE {})
    \cup {pageNumbers(pl.currentPage, pl.pagination[1].totalPages)[k] :
             k \in 1..Min(maxPageButtons, pl.pagination[1].totalPages)}

\* a click on a pagination button
PageClick(newPage) ==
    /\ PaginationRendered
    /\ newPage \in PageButtons
    /\ setQuery(handlePageChange(pl, newPage), pl.searchTerm,
                "handlePageChange", newPage)
    /\ InputRendered
    /\ UNCHANGED <<plTimer, plKey, plShown, plMounted, notPl>>

\* the parent takes PatientList off the page: the component has no effect
\* cleanup, so the debounce timeout and the requests in flight stay as
\* they are
PlUnmount ==
    /\ plMounted
    /\ plMounted' = FALSE
    /\ plInput' = NULL
    /\ plLast' = PlLast("unmount", <<>>, 0)
    /\ UNCHANGED <<pl, plReqs, plTimer, plKey, plShown, notPl>>

(***************************************************************************)
(* The page-number buttons of PatientList, rendered from every currentPage *)
(* and totalPages (PatientList.js 215-238).                                *)
(***************************************************************************)
\* the largest totalPages the buttons are rendered for
MaxTotalPages == 100

\* <div className="page-numbers"> for one (currentPage, totalPages)
PageNumbersView(currentPage, totalPages) ==
    [currentPage |-> currentPage, totalPages |-> totalPages,
     pages |-> pageNumbers(currentPage, totalPages)]

\* the buttons before any pagination is known: none are rendered
pwInit == pw = [currentPage |-> 1, totalPages |-> 0, pages |-> <<>>]

\* the buttons are rendered anew after currentPage moved by one
RenderPageMoved(d) ==
    /\ pw.currentPage + d \in 1..pw.totalPages
    /\ pw' = PageNumbersView(pw.currentPage + d, pw.totalPages)
    /\ UNCHANGED <<cmVars, plVars, pdVars, row, sd, card, thVars>>

\* the buttons are rendered anew after a response changed totalPages by one
\* (currentPage still within it)
RenderTotalChanged(d) ==
    /\ pw.totalPages + d \in pw.currentPage..MaxTotalPages
    /\ pw' = PageNumbersView(pw.currentPage, pw.totalPages + d)
    /\ UNCHANGED <<cmVars, plVars, pdVars, row, sd, card, thVars>>

(***************************************************************************)
(* PatientDetail (src/unnamed/part_001).                                   *)
(***************************************************************************)
\* fetchPatientData invocations that may be in flight together
MaxDetailFlows == 2

PatientIds == {"P-001", "P-002"}
RecordLists == {<<>>, <<"r1">>}

\* what getPatient(id) can resolve with: the patient object or an empty value
PatientAnswers(id) == {<<>>, <<[patientId |-> id]>>}

\* what getPatientRecords can resolve with: an object whose `records` is a
\* list (<<list>>) or missing (<<>>)
RecordsAnswers == {[records |-> <<>>]} \cup {[records |-> <<rs>>] : rs \in RecordLists}

\* a fetchPatientData invocation: the patientId of its effect and the await
\* it is suspended at
DetailFlow(id, pc) == [patientId |-> id, pc |-> pc]

\* solo: no two invocations have been in flight together since the view was
\* last idle
PdLast(op, calls, solo) == [op |-> op, calls |-> calls, solo |-> solo]

getPatientCall(id) == Call("getPatient", <<id>>)

getPatientRecordsCall(id) == Call("getPatientRecords", <<id>>)

pdInitState == [patient |-> <<>>, records |-> <<>>, loading |-> TRUE, error |-> NULL]

\* useEffect(() => { fetchPatientData() }, [patientId]) up to the first await
fetchPatientData(id) ==
    IF id = NULL
    THEN /\ UNCHANGED <<pd, pdFlows>>
         /\ pdLast' = PdLast("effect", <<>>, pdLast.solo)
    ELSE /\ BagCardinality(pdFlows) < MaxDetailFlows
         /\ pd' = [pd EXCEPT !.loading = TRUE, !.error = NULL]
         /\ pdFlows' = pdFlows (+) SetToBag({DetailFlow(id, "getPatient")})
         /\ pdLast' = PdLast("effect", <<getPatientCall(id)>>, pdFlows = EmptyBag)

\* the component mounts with some patientId and its effect runs
pdInit ==
    /\ pdId \in PatientIds \cup {NULL}
    /\ pd = pdInitState
    /\ pdFlows = IF pdId = NULL THEN EmptyBag
                 ELSE SetToBag({DetailFlow(pdId, "getPatient")})
    /\ pdLast = PdLast("mount",
           IF pdId = NULL THEN <<>> ELSE <<getPatientCall(pdId)>>, TRUE)

\* the component before it is used: no patient selected
pdIdle ==
    /\ pdId = NULL
    /\ pd = pdInitState
    /\ pdFlows = EmptyBag
    /\ pdLast = PdLast("mount", <<>>, TRUE)

\* `if (loading) return <Loading/>`
PdLoadingView == pd.loading

\* `if (error || !patient) return <Error/>`
PdErrorView == ~pd.loading /\ (pd.error # NULL \/ pd.patient = <<>>)

\* the text of the error view: {error || 'Patient not found'}
PdErrorText == orElse(pd.error, "Patient not found")

\* the parent renders the view with another patientId
PatientIdChanged(id) ==
    /\ id # pdId
    /\ pdId' = id
    /\ fetchPatientData(id)
    /\ UNCHANGED <<cmVars, plVars, pw, row, sd, card, thVars>>

\* the catch and finally blocks of fetchPatientData
fetchPatientDataFailed(st, message) ==
    [st EXCEPT !.error = orElse(message, "Failed to load patient data"),
               !.patient = <<>>, !.records = <<>>, !.loading = FALSE]

\* getPatient resolved with patientData: setPatient(patientData), then
\* getPatientRecords(patientId) is called
GetPatientResolved(f, patientData) ==
    /\ f \in BagToSet(pdFlows)
    /\ f.pc = "getPatient"
    /\ pd' = [pd EXCEPT !.patient = patientData]
    /\ pdFlows' = (pdFlows (-) SetToBag({f}))
                     (+) SetToBag({DetailFlow(f.patientId, "getPatientRecords")})
    /\ pdLast' = PdLast(IF patientData = <<>> THEN "getPatientEmpty"
                        ELSE "getPatientResolved",
                        <<getPatientRecordsCall(f.patientId)>>, pdLast.solo)
    /\ UNCHANGED <<pdId, cmVars, plVars, pw, row, sd, card, thVars>>

\* getPatient rejected
GetPatientRejected(f, m) ==
    /\ f \in BagToSet(pdFlows)
    /\ f.pc = "getPatient"
    /\ pd' = fetchPatientDataFailed(pd, m)
    /\ pdFlows' = pdFlows (-) SetToBag({f})
    /\ pdLast' = PdLast("getPatientRejected", <<>>, pdLast.solo)
    /\ UNCHANGED <<pdId, cmVars, plVars, pw, row, sd, card, thVars>>

\* getPatientRecords resolved: setRecords(recordsData.records || [])
RecordsResolved(f, recordsData) ==
    /\ f \in BagToSet(pdFlows)
    /\ f.pc = "getPatientRecords"
    /\ pd' = [pd EXCEPT !.records = IF recordsData.records = <<>> THEN <<>>
                                    ELSE recordsData.records[1],
                        !.loading = FALSE]
    /\ pdFlows' = pdFlows (-) SetToBag({f})
    /\ pdLast' = PdLast("recordsResolved", <<>>, pdLast.solo)
    /\ UNCHANGED <<pdId, cmVars, plVars, pw, row, sd, card, thVars>>

\* getPatientRecords rejected
RecordsRejected(f, m) ==
    /\ f \in BagToSet(pdFlows)
    /\ f.pc = "getPatientRecords"
    /\ pd' = fetchPatientDataFailed(pd, m)
    /\ pdFlows' = pdFlows (-) SetToBag({f})
    /\ pdLast' = PdLast("recordsRejected", <<>>, pdLast.solo)
    /\ UNCHANGED <<pdId, cmVars, plVars, pw, row, sd, card, thVars>>

(***************************************************************************)
(* TransactionHistory (src/frontend/src/components/TransactionHistory.js): *)
(* the texts of a transaction row.                                         *)
(*                                                                         *)
(* An instant is [day, ms]: whole days since 1970-01-01T00:00Z and the     *)
(* milliseconds into that day.  JavaScript keeps it as one number of       *)
(* milliseconds, exact in a double; the pair keeps the same integer within *)
(* the integers of the model checker, and the arithmetic below is that of  *)
(* the code on the pair.                                                   *)
(***************************************************************************)
UNDEFINED == "undefined"

msPerMinute == 1000 * 60
msPerHour == 1000 * 60 * 60
msPerDay == 1000 * 60 * 60 * 24

Instant(day, ms) == [day |-> day, ms |-> ms]

\* the instant `ms` milliseconds after t (before it, when ms < 0)
plusMs(t, ms) ==
    Instant(t.day + ((t.ms + ms) \div msPerDay), (t.ms + ms) % msPerDay)

\* a `timestamp` argument: its JavaScript type and, for a number of
\* milliseconds or a date string ("iso"), the instant it denotes
Timestamp(type, t) == [type |-> type, day |-> t.day, ms |-> t.ms]

\* `new Date()` at the renders that are modelled: 2024-01-01T00:00:00Z,
\* 30 s later, and noon
Clocks == {Instant(19723, 0), Instant(19723, 30000), Instant(19723, 12 * msPerHour)}

\* ages of the timestamps before 2024-01-01T00:00:00Z, in ms (negative: in
\* the future)
Ages ==
    {-msPerHour, 0, 1, 30000, msPerMinute - 1, msPerMinute, 5 * msPerMinute,
     msPerHour - 1, msPerHour, 3 * msPerHour, msPerDay - 1, msPerDay,
     7 * msPerDay - 1, 7 * msPerDay}

ValidInstants ==
    {plusMs(Instant(19723, 0), -a) : a \in Ages}
    \cup {Instant(19700, 1000), Instant(0, 1), Instant(19800, 0)}

\* TimeZones: offsets from UTC in minutes of the runtime's time zone
TimeZones == {-300, 0, 330}

TimestampInputs ==
    {Timestamp(ty, Instant(0, 0)) :
        ty \in {"undefined", "null", "empty", "text", "symbol", "number"}}
    \cup {Timestamp(ty, t) : ty \in {"number", "iso"}, t \in ValidInstants}

\* `!timestamp`: undefined, null, '' and the number 0 are falsy
NoTimestamp_never(timestamp) == FALSE

NoTimestamp(timestamp) ==
    \/ timestamp.type \in {"undefined", "null", "empty"}
    \/ timestamp.type = "number" /\ timestamp.day = 0 /\ timestamp.ms = 0

\* `new Date(timestamp)`: throws a TypeError for a symbol; an Invalid Date
\* for undefined and for a string that is not a date; the epoch for null;
\* otherwise the instant the number or string denotes
newDate(timestamp) ==
    CASE timestamp.type = "symbol" ->
            [threw |-> TRUE, valid |-> FALSE, day |-> 0, ms |-> 0]
      [] timestamp.type \in {"undefined", "empty", "text"} ->
            [threw |-> FALSE, valid |-> FALSE, day |-> 0, ms |-> 0]
      [] timestamp.type = "null" ->
            [threw |-> FALSE, valid |-> TRUE, day |-> 0, ms |-> 0]
      [] OTHER ->
            [threw |-> FALSE, valid |-> TRUE,
             day |-> timestamp.day, ms |-> timestamp.ms]

\* Math.floor(diffMs / (1000 * 60)) with diffMs = now - date, which is
\* (now.day - date.day) * msPerDay + (now.ms - date.ms); msPerDay is a
\* multiple of the divisor, so the floor splits over the two terms
diffMins_rounded(date, now) ==
    (now.day - date.day) * (msPerDay \div msPerMinute)
        + ((now.ms - date.ms + (msPerMinute \div 2)) \div msPerMinute)

diffMins(date, now) ==
    (now.day - date.day) * (msPerDay \div msPerMinute)
        + ((now.ms - date.ms) \div msPerMinute)

\* Math.floor(diffMs / (1000 * 60 * 60))
diffHours(date, now) ==
    (now.day - date.day) * (msPerDay \div msPerHour)
        + ((now.ms - date.ms) \div msPerHour)

\* Math.floor(diffMs / (1000 * 60 * 60 * 24))
diffDays(date, now) ==
    (now.day - date.day) + ((now.ms - date.ms) \div msPerDay)

MonthNames ==
    <<"Jan", "Feb", "Mar", "Apr", "May", "Jun",
      "Jul", "Aug", "Sep", "Oct", "Nov", "Dec">>

\* the month and the day of the month of day number `day` (days since
\* 1970-01-01) in the Gregorian calendar
civil(day) ==
    LET z == day + 719468
        era == z \div 146097
        doe == z - era * 146097
        yoe == (doe - (doe \div 1460) + (doe \div 36524) - (doe \div 146096)) \div 365
        doy == doe - (365 * yoe + (yoe \div 4) - (yoe \div 100))
        mp == (5 * doy + 2) \div 153
    IN  [month |-> IF mp < 10 THEN mp + 3 ELSE mp - 9,
         day |-> doy - ((153 * mp + 2) \div 5) + 1]

\* date.toLocaleDateString('en-US', {month: 'short', day: 'numeric'}) in
\* the time zone `zone` minutes east of UTC
toLocaleDateString(date, zone) ==
    LET c == civil(plusMs(date, zone * msPerMinute).day)
    IN  MonthNames[c.month] \o " " \o ToString(c.day)

\* formatTimeAgo(timestamp), with what `new Date()` and the runtime's time
\* zone are at the call; the catch block returns '' as well
formatTimeAgo(timestamp, now, zone) ==
    IF NoTimestamp(timestamp) THEN ""
    ELSE LET date == newDate(timestamp) IN
         IF date.threw THEN ""
         ELSE IF ~date.valid THEN ""
         ELSE IF diffMins(date, now) < 1 THEN "Just now"
         ELSE IF diffMins(date, now) < 60 THEN ToString(diffMins(date, now)) \o "m ago"
         ELSE IF diffHours(date, now) < 24 THEN ToString(diffHours(date, now)) \o "h ago"
         ELSE IF diffDays(date, now) < 7 THEN ToString(diffDays(date, now)) \o "d ago"
         ELSE toLocaleDateString(date, zone)

(***************************************************************************)
(* Amounts.  A numeric amount is [hi, lo] with value hi * 10^9 + lo and    *)
(* 0 <= lo < 10^9 (2 * 10^18 is hi = 2 * 10^9); the number amounts of the  *)
(* model are exact in a double.                                            *)
(***************************************************************************)
e9 == 1000 * 1000 * 1000

\* an `amount` argument: its JavaScript type ("number", a numeric "string",
\* a "text" that is no number, '' as "empty", null, undefined) and its value
Amount(type, hi, lo) == [type |-> type, hi |-> hi, lo |-> lo]

AmountValues ==
    {<<0, 0>>, <<0, 1>>, <<0, 5>>, <<0, 1500>>, <<1, 0>>, <<999999, e9 - 1>>,
     <<1000000, 0>>, <<1000000, 1>>, <<1000050, 0>>, <<2000000, 0>>,
     <<10000000, 0>>, <<123456789, 12345678>>, <<1500000000, 0>>,
     <<2000000000, 0>>}

AmountInputs ==
    {Amount(ty, 0, 0) : ty \in {"undefined", "null", "empty", "text"}}
    \cup {Amount(ty, v[1], v[2]) :
             ty \in {"number", "string"},
             v \in AmountValues \ {<<123456789, 12345678>>}}
    \cup {Amount("string", 123456789, 12345678)}

\* tx.currency: a string or undefined
CurrencyInputs == {UNDEFINED, "ETH", "USDC", "MATIC"}

\* n in decimal, filled with zeros on the left to `width` digits
RECURSIVE padStart(_, _)
padStart(n, width) ==
    IF width <= 1 THEN ToString(n)
    ELSE ToString(n \div (10 ^ (width - 1)))
            \o padStart(n % (10 ^ (width - 1)), width - 1)

\* `${amount}`: the amount as text
amountText(amount) ==
    CASE amount.type = "text" -> "abc"
      [] amount.type = "empty" -> ""
      [] amount.type \in {"undefined", "null"} -> amount.type
      [] OTHER -> IF amount.hi = 0 THEN ToString(amount.lo)
                  ELSE ToString(amount.hi) \o padStart(amount.lo, 9)

\* `!amount`: undefined, null, '' and the number 0 are falsy ('0' is not)
NoAmount(amount) ==
    \/ amount.type \in {"undefined", "null", "empty"}
    \/ amount.type = "number" /\ amount.hi = 0 /\ amount.lo = 0

\* parseFloat(amount) > 1e15; parseFloat of a text that is no number is NaN,
\* which is greater than nothing
greaterThan1e15_orEqual(amount) ==
    /\ amount.type \in {"number", "string"}
    /\ amount.hi >= 1000000

greaterThan1e15(amount) ==
    /\ amount.type \in {"number", "string"}
    /\ \/ amount.hi > 1000000
       \/ amount.hi = 1000000 /\ amount.lo > 0

\* (amountNum / 1e18).toFixed(4): the quotient rounded to a multiple of
\* 10^-4 (amount / 10^14 rounded to an integer, then four decimals)
toFixed4(amount) ==
    LET tenThousandths == (amount.hi \div 100000)
                          + (IF amount.hi % 100000 >= 50000 THEN 1 ELSE 0)
    IN  ToString(tenThousandths \div 10000) \o "."
            \o padStart(tenThousandths % 10000, 4)

\* formatAmount(amount, currency = 'ETH')
formatAmount(amount, currency) ==
    LET cur == IF currency = UNDEFINED THEN "ETH" ELSE currency IN
    IF NoAmount(amount) THEN "0"
    ELSE IF greaterThan1e15(amount) THEN toFixed4(amount) \o " " \o cur
    ELSE amountText(amount) \o " " \o cur

(***************************************************************************)
(* A transaction row is rendered.                                          *)
(***************************************************************************)
Row(timestamp, now, zone, amount, currency) ==
    [timestamp |-> timestamp, now |-> now, zone |-> zone,
     timeAgo |-> formatTimeAgo(timestamp, now, zone),
     amount |-> amount, currency |-> currency,
     amountText |-> formatAmount(amount, currency)]

\* no row is rendered
rowIdle ==
    row = Row(Timestamp("undefined", Instant(0, 0)), Instant(19723, 0), 0,
              Amount("undefined", 0, 0), UNDEFINED)

\* the list is rendered with another timestamp in the row
RenderTimestamp(timestamp) ==
    /\ timestamp # row.timestamp
    /\ row' = Row(timestamp, row.now, row.zone, row.amount, row.currency)
    /\ UNCHANGED <<cmVars, plVars, pdVars, pw, sd, card, thVars>>

\* the list is rendered again at a later time
RenderLater(now) ==
    /\ now.day > row.now.day \/ (now.day = row.now.day /\ now.ms > row.now.ms)
    /\ row' = Row(row.timestamp, now, row.zone, row.amount, row.currency)
    /\ UNCHANGED <<cmVars, plVars, pdVars, pw, sd, card, thVars>>

\* the list is rendered with another amount and currency in the row
RenderAmount(amount, currency) ==
    /\ <<amount, currency>> # <<row.amount, row.currency>>
    /\ row' = Row(row.timestamp, row.now, row.zone, amount, currency)
    /\ UNCHANGED <<cmVars, plVars, pdVars, pw, sd, card, thVars>>

(***************************************************************************)
(* StatsDashboard (src/frontend/src/components/StatsDashboard.js).         *)
(* A count of the response is <<n>>, or <<>> when the field is absent.     *)
(***************************************************************************)
Counts == {<<>>, <<0>>, <<2>>, <<5>>}

\* what getStats can resolve with: null (<<>>) or an object of counts
StatsResponses ==
    {<<>>}
    \cup {<<[totalPatients |-> tp, totalRecords |-> tr,
            totalConsents |-> tc, activeConsents |-> ac]>> :
             tp \in Counts, tr \in Counts, tc \in Counts, ac \in Counts}

\* `count > 0`: false for an absent field (undefined > 0)
isPositive(count) == count # <<>> /\ count[1] > 0

\* `count || 0`
orZero(count) == IF count = <<>> THEN 0 ELSE count[1]

\* Math.round(a / b * 100) and Math.round(a / b) for a >= 0, b > 0: the
\* nearest integer, halves upwards
roundDiv(a, b) == (2 * a + b) \div (2 * b)

\* Consent Activity: stats.totalConsents > 0
\*   ? `${Math.round((stats.activeConsents / stats.totalConsents) * 100)}% Active`
\*   : 'No data'
\* (undefined / n is NaN, and Math.round(NaN) is NaN)
consentActivity(stats) ==
    IF isPositive(stats.totalConsents)
    THEN IF stats.activeConsents = <<>>
         THEN "NaN% Active"
         ELSE ToString(roundDiv(stats.activeConsents[1] * 100,
                                stats.totalConsents[1])) \o "% Active"
    ELSE "No data"

\* Avg Records per Patient: stats.totalPatients > 0
\*   ? Math.round((stats.totalRecords || 0) / stats.totalPatients) : '0'
avgRecordsPerPatient(stats) ==
    IF isPositive(stats.totalPatients)
    THEN ToString(roundDiv(orZero(stats.totalRecords), stats.totalPatients[1]))
    ELSE "0"

sdInitState == [stats |-> <<>>, loading |-> TRUE, error |-> NULL, inFlight |-> TRUE]

\* the component mounts and its effect calls fetchStats
sdInit == sd = sdInitState

\* `if (loading) return <Loading/>`
SdLoadingView == sd.loading

\* `if (error || !stats) return <Error/> + Try Again`
SdErrorView == ~sd.loading /\ (sd.error # NULL \/ sd.stats = <<>>)

\* the statistics are rendered
SdMainView == ~sd.loading /\ sd.error = NULL /\ sd.stats # <<>>

\* getStats resolved: setStats(response); setLoading(false)
StatsResolved(response) ==
    /\ sd.inFlight
    /\ sd' = [sd EXCEPT !.stats = response, !.loading = FALSE, !.inFlight = FALSE]
    /\ UNCHANGED <<cmVars, plVars, pdVars, pw, row, card, thVars>>

\* getStats rejected: setError(err.message || ...); setLoading(false)
StatsRejected(m) ==
    /\ sd.inFlight
    /\ sd' = [sd EXCEPT !.error = orElse(m, "Failed to load statistics"),
                        !.loading = FALSE, !.inFlight = FALSE]
    /\ UNCHANGED <<cmVars, plVars, pdVars, pw, row, card, thVars>>

\* the Try Again button of the error view: onClick={fetchStats}
TryAgain ==
    /\ SdErrorView
    /\ sd' = [sd EXCEPT !.loading = TRUE, !.error = NULL, !.inFlight = TRUE]
    /\ UNCHANGED <<cmVars, plVars, pdVars, pw, row, card, thVars>>

(***************************************************************************)
(* ConsentManagement: the badges of a consent card (part_000 147-168,      *)
(* 363-368).                                                               *)
(*                                                                         *)
(* A JavaScript string is modelled as the sequence of its characters, each *)
(* a one-character string, so that toLowerCase and includes work on the    *)
(* characters as the code's do.  A `status` or `purpose` value is          *)
(* [type, chars]: its JavaScript type ("string", "null", "undefined") and, *)
(* for a string, its characters.                                           *)
(***************************************************************************)
UpperCaseLetters ==
    <<"A", "B", "C", "D", "E", "F", "G", "H", "I", "J", "K", "L", "M",
     "N", "O", "P", "Q", "R", "S", "T", "U", "V", "W", "X", "Y", "Z">>

LowerCaseLetters ==
    <<"a", "b", "c", "d", "e", "f", "g", "h", "i", "j", "k", "l", "m",
     "n", "o", "p", "q", "r", "s", "t", "u", "v", "w", "x", "y", "z">>

String(chars) == [type |-> "string", chars |-> chars]

Missing(type) == [type |-> type, chars |-> <<>>]

\* String.prototype.toLowerCase with the letters left as they are
toLowerCase_identity(chars) == chars

\* String.prototype.toLowerCase on the letters A-Z; every other character
\* of the inputs is its own lower case
toLowerCase(chars) ==
    [i \in 1..Len(chars) |->
        IF \E k \in 1..26 : UpperCaseLetters[k] = chars[i]
        THEN LowerCaseLetters[CHOOSE k \in 1..26 : UpperCaseLetters[k] = chars[i]]
        ELSE chars[i]]

\* String.prototype.includes
includes(chars, searchString) ==
    \E i \in 0..(Len(chars) - Len(searchString)) :
        SubSeq(chars, i + 1, i + Len(searchString)) = searchString

\* the case labels of getStatusBadgeClass and the search strings of
\* getPurposeType
active == <<"a", "c", "t", "i", "v", "e">>
pending == <<"p", "e", "n", "d", "i", "n", "g">>
revoked == <<"r", "e", "v", "o", "k", "e", "d">>
expired == <<"e", "x", "p", "i", "r", "e", "d">>
research == <<"r", "e", "s", "e", "a", "r", "c", "h">>
dataSharing == <<"d", "a", "t", "a", " ", "s", "h", "a", "r", "i", "n", "g">>
analytics == <<"a", "n", "a", "l", "y", "t", "i", "c", "s">>
insurance == <<"i", "n", "s", "u", "r", "a", "n", "c", "e">>

\* `status?.toLowerCase()` is undefined (here <<>>) for null and undefined,
\* and <<the lower-cased characters>> for a string
getStatusBadgeClass(status) ==
    LET lowered == IF status.type = "string"
                   THEN <<toLowerCase(status.chars)>>
                   ELSE <<>>
    IN  IF lowered = <<active>> THEN "status-badge active"
        ELSE IF lowered = <<pending>> THEN "status-badge pending"
        ELSE IF lowered = <<revoked>> THEN "status-badge revoked"
        ELSE IF lowered = <<expired>> THEN "status-badge expired"
        ELSE "status-badge unknown"

\* what `purpose.toLowerCase()` ends in when purpose is null or undefined
TypeError == "TypeError"

getPurposeType(purpose) ==
    IF purpose.type # "string" THEN TypeError
    ELSE IF includes(toLowerCase(purpose.chars), research) THEN "research"
    ELSE IF includes(toLowerCase(purpose.chars), dataSharing) THEN "data-sharing"
    ELSE IF includes(toLowerCase(purpose.chars), analytics) THEN "analytics"
    ELSE IF includes(toLowerCase(purpose.chars), insurance) THEN "insurance"
    ELSE "other"

\* the two badges of the card of one consent; when getPurposeType throws,
\* the render throws and nothing is shown
ConsentCard(status, purpose) ==
    IF getPurposeType(purpose) = TypeError
    THEN [status |-> status, purpose |-> purpose, thrown |-> TRUE,
          purposeClass |-> NULL, statusClass |-> NULL]
    ELSE [status |-> status, purpose |-> purpose, thrown |-> FALSE,
          purposeClass |-> "purpose-badge " \o getPurposeType(purpose),
          statusClass |-> getStatusBadgeClass(status)]

\* the letter cases the inputs are written in: as is, in capitals, with a
\* capital first letter, and with every second letter a capital
toUpperCase(chars) ==
    [i \in 1..Len(chars) |->
        IF \E k \in 1..26 : LowerCaseLetters[k] = chars[i]
        THEN UpperCaseLetters[CHOOSE k \in 1..26 : LowerCaseLetters[k] = chars[i]]
        ELSE chars[i]]

Cases(chars) ==
    {chars,
     toUpperCase(chars),
     [i \in 1..Len(chars) |-> IF i = 1 THEN toUpperCase(chars)[i] ELSE chars[i]],
     [i \in 1..Len(chars) |-> IF i % 2 = 0 THEN toUpperCase(chars)[i] ELSE chars[i]]}

\* the statuses of the backend, two that are not recognized, the empty
\* string, and a status that is missing
StatusWords ==
    {active, pending, revoked, expired, <<"g", "r", "a", "n", "t", "e", "d">>, <<"a", "c", "t", "i", "v", "a", "t", "e", "d">>, <<>>}

CardStatuses ==
    {String(c) : c \in UNION {Cases(w) : w \in StatusWords}}
    \cup {Missing("null"), Missing("undefined")}

\* purposes with one search string, with two, with none, the empty string,
\* and a purpose that is missing
PurposeWords ==
    {<<"r", "e", "s", "e", "a", "r", "c", "h", " ", "s", "t", "u", "d", "y">>,
     <<"d", "a", "t", "a", " ", "s", "h", "a", "r", "i", "n", "g", " ", "w", "i", "t", "h", " ", "r", "e", "s", "e", "a", "r", "c", "h">>,
     <<"d", "a", "t", "a", " ", "s", "h", "a", "r", "i", "n", "g", " ", "p", "l", "a", "n">>,
     <<"t", "h", "i", "r", "d", "-", "p", "a", "r", "t", "y", " ", "a", "n", "a", "l", "y", "t", "i", "c", "s">>,
     <<"i", "n", "s", "u", "r", "a", "n", "c", "e", " ", "a", "c", "c", "e", "s", "s">>,
     <<"c", "l", "i", "n", "i", "c", "a", "l", " ", "t", "r", "i", "a", "l">>,
     <<"d", "a", "t", "a", "-", "s", "h", "a", "r", "i", "n", "g">>,
     <<>>}

CardPurposes ==
    {String(c) : c \in UNION {Cases(w) : w \in PurposeWords}}
    \cup {Missing("null"), Missing("undefined")}

\* the list is empty: the card shown is that of no consent
cardIdle == card = ConsentCard(Missing("undefined"), String(<<>>))

\* the list is rendered with another status in the card
RenderStatus(status) ==
    /\ status # card.status
    /\ card' = ConsentCard(status, card.purpose)
    /\ UNCHANGED <<cmVars, plVars, pdVars, pw, row, sd, thVars>>

\* the list is rendered with another purpose in the card
RenderPurpose(purpose) ==
    /\ purpose # card.purpose
    /\ card' = ConsentCard(card.status, purpose)
    /\ UNCHANGED <<cmVars, plVars, pdVars, pw, row, sd, thVars>>

(***************************************************************************)
(* TransactionHistory: the list and its fetch (TransactionHistory.js 6-35, *)
(* 136-240).                                                               *)
(***************************************************************************)
\* getTransactions requests that may be in flight together
MaxTxRequests == 2

\* apiService.getTransactions(walletAddress, 50)
limit == 50

TransactionLists == {<<>>, <<"t1">>, <<"t1", "t2">>}

\* the accounts the wallet switches between
Wallets == {"0xABCD", "0xEF01"}

\* a settled getTransactions promise
TransactionsResponses ==
    {[ok |-> TRUE, transactions |-> l, message |-> NULL] : l \in TransactionLists}
    \cup {[ok |-> FALSE, transactions |-> <<>>, message |-> m] : m \in ErrMessages}

thInitState(acct) ==
    [account |-> acct, transactions |-> <<>>, loading |-> TRUE, error |-> NULL,
     filterByAccount |-> TRUE]

\* `filterByAccount && account ? account : null`
walletAddress(st) ==
    IF st.filterByAccount /\ st.account # NULL THEN st.account ELSE NULL

getTransactionsRequest(st) == [walletAddress |-> walletAddress(st), limit |-> limit]

\* the component is mounted with `account` = acct: the effect calls
\* fetchTransactions
thMount(acct) ==
    /\ th = thInitState(acct)
    /\ thReqs = SetToBag({getTransactionsRequest(thInitState(acct))})

thInit == thMount(NULL)

\* `if (loading && transactions.length === 0) return <Loading/>`
ThLoadingView == th.loading /\ th.transactions = <<>>

\* `if (error && transactions.length === 0) return <Error/> + Retry`
ThErrorView == ~ThLoadingView /\ th.error # NULL /\ th.transactions = <<>>

ThMainView == ~ThLoadingView /\ ~ThErrorView

\* fetchTransactions up to its await: the request goes out with the
\* account and filterByAccount of the render st
fetchTransactions(st) ==
    /\ BagCardinality(thReqs) < MaxTxRequests
    /\ th' = [st EXCEPT !.loading = TRUE, !.error = NULL]
    /\ thReqs' = thReqs (+) SetToBag({getTransactionsRequest(st)})

\* fetchTransactions after its await
fetchTransactionsSettle(st, r) ==
    IF r.ok
    THEN [st EXCEPT !.transactions = r.transactions, !.loading = FALSE]
    ELSE [st EXCEPT !.error = orElse(r.message, "Failed to fetch transactions"),
                    !.transactions = <<>>, !.loading = FALSE]

\* the On / Off buttons and `Show All Transactions` (rendered while an
\* account is connected): setFilterByAccount(b); the effect on
\* [account, filterByAccount] then calls fetchTransactions
SetFilterByAccount(b) ==
    /\ ThMainView /\ th.account # NULL
    /\ b # th.filterByAccount
    /\ fetchTransactions([th EXCEPT !.filterByAccount = b])
    /\ UNCHANGED <<cmVars, plVars, pdVars, pw, row, sd, card>>

\* the parent passes a new `account` prop; the effect calls fetchTransactions
ThAccountChanged(a) ==
    /\ a # th.account
    /\ fetchTransactions([th EXCEPT !.account = a])
    /\ UNCHANGED <<cmVars, plVars, pdVars, pw, row, sd, card>>

\* the Retry button of the error view: onClick={fetchTransactions}
ThRetry ==
    /\ ThErrorView
    /\ fetchTransactions(th)
    /\ UNCHANGED <<cmVars, plVars, pdVars, pw, row, sd, card>>

\* a getTransactions request settles, in whatever order
TransactionsSettled(q, r) ==
    /\ q \in BagToSet(thReqs)
    /\ th' = fetchTransactionsSettle(th, r)
    /\ thReqs' = thReqs (-) SetToBag({q})
    /\ UNCHANGED <<cmVars, plVars, pdVars, pw, row, sd, card>>

viewInit == pwInit /\ pdIdle /\ rowIdle /\ sdInit /\ cardIdle /\ thInit

(***************************************************************************)
(* Specifications.  ConsentManagement is checked in two environments, each *)
(* with the actions that can fire in it.                                   *)
(*                                                                         *)
(* SpecConfirm: no wallet is connected (account stays NULL, so neither     *)
(* create button is enabled and the form is never rendered); the backend   *)
(* holds pending and active consents, whose status can be changed through  *)
(* the confirm dialog.                                                     *)
(*                                                                         *)
(* SpecCreate: the wallet connects and disconnects and consents are        *)
(* created through the form; every consent the backend returns is closed   *)
(* (revoked or expired), so no card renders a status button and the        *)
(* dialog never opens.                                                     *)
(*                                                                         *)
(* SpecPatients: PatientList on its own (the components do not call each   *)
(* other).                                                                 *)
(***************************************************************************)
InitConfirm == cmInit /\ account = NULL /\ plInit /\ viewInit

NextConfirm ==
    \/ \E f \in FilterStatuses : SetFilterStatus(f)
    \/ Retry
    \/ \E f \in InFlight, r \in FetchResponses(ConsentLists) : FetchSettled(f, r)
    \/ \E i \in 1..2, s \in ConsentStatuses : ClickStatusButton(i, s)
    \/ ClickConfirm
    \/ \E f \in InFlight : UpdateResolved(f)
    \/ \E f \in InFlight, m \in ErrMessages : UpdateRejected(f, m)
    \/ \E f \in InFlight, r \in FetchResponses(ConsentLists) :
          ConfirmRefreshSettled(f, r)
    \/ ClickCancel

SpecConfirm == InitConfirm /\ [][NextConfirm]_vars

InitCreate == cmInit /\ account \in Accounts \cup {NULL} /\ plInit /\ viewInit

NextCreate ==
    \/ \E f \in FilterStatuses : SetFilterStatus(f)
    \/ Retry
    \/ \E f \in InFlight, r \in FetchResponses(ClosedLists) : FetchSettled(f, r)
    \/ ToggleCreateForm
    \/ CreateFirst
    \/ \E v \in PatientIdInputs : ChangePatientId(v)
    \/ \E v \in PurposeInputs : ChangePurpose(v)
    \/ \E a \in Accounts \cup {NULL} : AccountChanged(a)
    \/ SubmitForm
    \/ DispatchSubmit
    \/ \E f \in InFlight, g \in Signatures : SignResolved(f, g)
    \/ \E f \in InFlight, m \in ErrMessages : SignRejected(f, m)
    \/ \E f \in InFlight : CreateResolved(f)
    \/ \E f \in InFlight, m \in ErrMessages : CreateRejected(f, m)
    \/ \E f \in InFlight, r \in FetchResponses(ClosedLists) :
          CreateRefreshSettled(f, r)

SpecCreate == InitCreate /\ [][NextCreate]_vars

\* SpecMutations: a connected wallet and a backend that holds pending and
\* active consents, so that statuses are changed through the dialog and
\* consents are created through the form in the same run; the filter stays
\* on "all"
InitMutations == cmInit /\ account \in Accounts /\ plInit /\ viewInit

NextMutations ==
    \/ \E f \in InFlight, r \in FetchResponses(ConsentLists) : FetchSettled(f, r)
    \/ \E i \in 1..2, s \in ConsentStatuses : ClickStatusButton(i, s)
    \/ ClickConfirm
    \/ \E f \in InFlight : UpdateResolved(f)
    \/ \E f \in InFlight, m \in ErrMessages : UpdateRejected(f, m)
    \/ \E f \in InFlight, r \in FetchResponses(ConsentLists) :
          ConfirmRefreshSettled(f, r)
    \/ ToggleCreateForm
    \/ \E v \in PatientIdInputs : ChangePatientId(v)
    \/ \E v \in PurposeInputs : ChangePurpose(v)
    \/ SubmitForm
    \/ \E f \in InFlight, g \in Signatures : SignResolved(f, g)
    \/ \E f \in InFlight, m \in ErrMessages : SignRejected(f, m)
    \/ \E f \in InFlight : CreateResolved(f)
    \/ \E f \in InFlight, m \in ErrMessages : CreateRejected(f, m)
    \/ \E f \in InFlight, r \in FetchResponses(ConsentLists) :
          CreateRefreshSettled(f, r)

SpecMutations == InitMutations /\ [][NextMutations]_vars

InitPatients == plInit /\ cmInit /\ account = NULL /\ viewInit

NextPatients ==
    \/ \E q \in BagToSet(plReqs) : \E r \in PatientsResponses(q) :
          PatientsSettled(q, r)
    \/ PlRetry
    \/ \E v \in SearchInputs : handleSearch(v)
    \/ Tick
    \/ DebounceFired
    \/ ClearSearch
    \/ \E n \in PageArgs : PageClick(n)

SpecPatients == InitPatients /\ [][NextPatients]_vars

\* SpecTeardown: PatientList, which its parent may unmount at any time
NextTeardown == NextPatients \/ PlUnmount

SpecTeardown == InitPatients /\ [][NextTeardown]_vars

\* SpecPageNumbers: the page-number buttons on their own, rendered from
\* every totalPages in 1..MaxTotalPages and every currentPage within it
InitPageNumbers ==
    /\ cmInit /\ account = NULL /\ plInit /\ pdIdle /\ rowIdle /\ sdInit /\ cardIdle /\ thInit
    /\ \E tp \in 1..MaxTotalPages : \E cp \in 1..tp :
          pw = PageNumbersView(cp, tp)

NextPageNumbers ==
    \/ \E d \in {-1, 1} : RenderPageMoved(d)
    \/ \E d \in {-1, 1} : RenderTotalChanged(d)

SpecPageNumbers == InitPageNumbers /\ [][NextPageNumbers]_vars

\* SpecDetail: PatientDetail on its own; the parent may select another
\* patient at any time
InitDetail == cmInit /\ account = NULL /\ plInit /\ pwInit /\ pdInit /\ rowIdle /\ sdInit /\ cardIdle /\ thInit

NextDetail ==
    \/ \E id \in PatientIds \cup {NULL} : PatientIdChanged(id)
    \/ \E f \in BagToSet(pdFlows) : \E d \in PatientAnswers(f.patientId) :
          GetPatientResolved(f, d)
    \/ \E f \in BagToSet(pdFlows), m \in ErrMessages : GetPatientRejected(f, m)
    \/ \E f \in BagToSet(pdFlows), d \in RecordsAnswers : RecordsResolved(f, d)
    \/ \E f \in BagToSet(pdFlows), m \in ErrMessages : RecordsRejected(f, m)

SpecDetail == InitDetail /\ [][NextDetail]_vars

\* SpecTimeAgo: the relative time of a transaction row of
\* TransactionHistory, for every timestamp, clock and time zone of the
\* input sets
InitTimeAgo ==
    /\ cmInit /\ account = NULL /\ plInit /\ pwInit /\ pdIdle /\ sdInit
    /\ cardIdle /\ thInit
    /\ \E timestamp \in TimestampInputs, now \in Clocks, zone \in TimeZones :
          row = Row(timestamp, now, zone, Amount("undefined", 0, 0), UNDEFINED)

NextTimeAgo ==
    \/ \E timestamp \in TimestampInputs : RenderTimestamp(timestamp)
    \/ \E now \in Clocks : RenderLater(now)

SpecTimeAgo == InitTimeAgo /\ [][NextTimeAgo]_vars

\* SpecAmount: the amount of a transaction row of TransactionHistory, for
\* every amount and currency of the input sets
InitAmount ==
    /\ cmInit /\ account = NULL /\ plInit /\ pwInit /\ pdIdle /\ sdInit
    /\ cardIdle /\ thInit
    /\ \E amount \in AmountInputs, currency \in CurrencyInputs :
          row = Row(Timestamp("undefined", Instant(0, 0)), Instant(19723, 0), 0,
                    amount, currency)

NextAmount ==
    \E amount \in AmountInputs, currency \in CurrencyInputs :
        RenderAmount(amount, currency)

SpecAmount == InitAmount /\ [][NextAmount]_vars

\* SpecStats: StatsDashboard on its own
InitStats == cmInit /\ account = NULL /\ plInit /\ pwInit /\ pdIdle /\ rowIdle /\ sdInit /\ cardIdle /\ thInit

NextStats ==
    \/ \E response \in StatsResponses : StatsResolved(response)
    \/ \E m \in ErrMessages : StatsRejected(m)
    \/ TryAgain

SpecStats == InitStats /\ [][NextStats]_vars

\* SpecForm: the create-consent form as the user can drive it (the submit
\* button and the fields are disabled while processing, so every submit
\* is a click on the enabled button), with a wallet and a backend that
\* answer every call in the end
InitForm == cmInit /\ account \in Accounts \cup {NULL} /\ plInit /\ viewInit

WalletAnswers ==
    \E f \in InFlight :
        \/ \E g \in Signatures : SignResolved(f, g)
        \/ \E m \in ErrMessages : SignRejected(f, m)

CreateAnswers ==
    \E f \in InFlight :
        \/ CreateResolved(f)
        \/ \E m \in ErrMessages : CreateRejected(f, m)

RefreshAnswers ==
    \E f \in InFlight, r \in FetchResponses(ClosedLists) : CreateRefreshSettled(f, r)

NextForm ==
    \/ \E f \in FilterStatuses : SetFilterStatus(f)
    \/ Retry
    \/ \E f \in InFlight, r \in FetchResponses(ClosedLists) : FetchSettled(f, r)
    \/ ToggleCreateForm
    \/ CreateFirst
    \/ \E v \in PatientIdInputs : ChangePatientId(v)
    \/ \E v \in PurposeInputs : ChangePurpose(v)
    \/ \E a \in Accounts \cup {NULL} : AccountChanged(a)
    \/ SubmitForm
    \/ WalletAnswers
    \/ CreateAnswers
    \/ RefreshAnswers

SpecForm ==
    /\ InitForm /\ [][NextForm]_vars
    /\ WF_vars(WalletAnswers) /\ WF_vars(CreateAnswers) /\ WF_vars(RefreshAnswers)

\* SpecBadges: the badges of a consent card, for every status and purpose
\* of the input sets
InitBadges ==
    /\ cmInit /\ account = NULL /\ plInit /\ pwInit /\ pdIdle /\ rowIdle /\ sdInit
    /\ thInit
    /\ \E status \in CardStatuses, purpose \in CardPurposes :
          card = ConsentCard(status, purpose)

NextBadges ==
    \/ \E status \in CardStatuses : RenderStatus(status)
    \/ \E purpose \in CardPurposes : RenderPurpose(purpose)

SpecBadges == InitBadges /\ [][NextBadges]_vars

\* SpecTransactions: the list of TransactionHistory on its own; the wallet
\* connects and disconnects
InitTransactions ==
    /\ cmInit /\ account = NULL /\ plInit /\ pwInit /\ pdIdle /\ rowIdle /\ sdInit
    /\ cardIdle
    /\ \E a \in Wallets \cup {NULL} : thMount(a)

NextTransactions ==
    \/ \E b \in BOOLEAN : SetFilterByAccount(b)
    \/ \E a \in Wallets \cup {NULL} : ThAccountChanged(a)
    \/ ThRetry
    \/ \E q \in BagToSet(thReqs), r \in TransactionsResponses :
          TransactionsSettled(q, r)

SpecTransactions == InitTransactions /\ [][NextTransactions]_vars

(***************************************************************************)
(* Properties of the confirm dialog (checked under SpecConfirm).           *)
(***************************************************************************)
\* the calls the step just taken issued to one api
IssuedTo(api) ==
    {cmLast'.calls[i] : i \in {j \in DOMAIN cmLast'.calls :
                                   cmLast'.calls[j].api = api}}

\* C1: every updateConsent call is issued by a handleConfirm step, taken
\* with the dialog open, for the consentId and newStatus of the
\* showConfirmation request that opened it; a showConfirmation step issues
\* no call at all.
C1_UpdateOnlyAfterConfirm ==
    [][ /\ \A c \in IssuedTo("updateConsent") :
              /\ cmLast'.op = "handleConfirm"
              /\ cm.showConfirmDialog
              /\ proposed.id # NULL
              /\ c.args = <<proposed.id, [status |-> proposed.status]>>
        /\ cmLast'.op = "showConfirmation" => cmLast'.calls = <<>>
      ]_vars

\* C1 witness: Confirm was clicked and issued the update that was proposed
C1_Witness ==
    /\ cmLast.op = "handleConfirm"
    /\ proposed.id # NULL
    /\ cmLast.calls = <<updateConsentCall(proposed.id, proposed.status)>>

\* what a step leaves alone when it touches the dialog state only
ListStateKept ==
    /\ cmLast'.calls = <<>>
    /\ cmFlows' = cmFlows
    /\ cm'.consents = cm.consents
    /\ cm'.filterStatus = cm.filterStatus
    /\ cm'.error = cm.error
    /\ cm'.loading = cm.loading

\* C2: showConfirmation followed by handleCancel: neither step issues a
\* backend call, and neither changes the consents list, the filter, error or
\* loading; after the cancel the dialog state is reset and nothing else of
\* the component has changed.
C2_CancelHasNoEffect ==
    [][ /\ cmLast'.op = "showConfirmation" => ListStateKept
        /\ (cmLast.op = "showConfirmation" /\ cmLast'.op = "handleCancel") =>
              /\ ListStateKept
              /\ cm' = [cm EXCEPT !.showConfirmDialog = FALSE,
                                  !.selectedConsentId = NULL,
                                  !.selectedNewStatus = NULL]
      ]_vars

\* C2 witness: a request for a displayed consent was cancelled
C2_Witness ==
    /\ cmLast.op = "handleCancel"
    /\ proposed.id # NULL
    /\ ~cm.showConfirmDialog
    /\ cm.consents # <<>>

AllowedTransitions ==
    {<<"pending", "active">>, <<"pending", "revoked">>, <<"active", "revoked">>}

\* C3: a status change is requested only for a consent displayed as pending
\* or active, and every updateConsent(id, {status: s}) call takes the status
\* displayed at the request to s along pending->active, pending->revoked or
\* active->revoked.
C3_OnlyAllowedTransitions ==
    /\ [](proposed.from \in {NULL, "pending", "active"})
    /\ [][ \A c \in IssuedTo("updateConsent") :
              /\ c.args[1] = proposed.id
              /\ <<proposed.from, c.args[2].status>> \in AllowedTransitions
         ]_vars

\* C3 witness: an active consent's revocation reached the backend
C3_Witness ==
    /\ cmLast.op = "handleConfirm"
    /\ proposed.from = "active"
    /\ cmLast.calls = <<updateConsentCall(proposed.id, "revoked")>>

(***************************************************************************)
(* Properties of the create-consent flow (checked under SpecCreate).       *)
(***************************************************************************)
FormInputs == [patientId : PatientIdInputs, purpose : PurposeInputs]

Invalid(acct, fd) == acct = NULL \/ fd.patientId = "" \/ fd.purpose = ""

\* C4: handleCreateConsent stops at its validation for every account and
\* form content with no account or an empty field, and a submit in such a
\* state issues no call (signMessage or apiService), starts nothing and
\* leaves processing, formData and the consents list as they were.
C4_InvalidSubmitIsInert ==
    /\ [](\A a \in Accounts \cup {NULL}, fd \in FormInputs :
             Invalid(a, fd) => createValidation(a, fd) # NULL)
    /\ [][ (cmLast'.op = "handleCreateConsent" /\ Invalid(account, cm.formData)) =>
              /\ cmLast'.calls = <<>>
              /\ cmFlows' = cmFlows
              /\ cm'.processing = cm.processing
              /\ cm'.formData = cm.formData
              /\ cm'.consents = cm.consents
         ]_vars

\* C4 witness: a submit with an empty field was turned down
C4_Witness ==
    /\ cmLast.op = "handleCreateConsent"
    /\ cmLast.alert = "Please fill in all required fields"
    /\ cmLast.calls = <<>>
    /\ ~cm.processing

\* C5: the step in which signMessage rejects issues no call and ends the
\* flow (no flow is left to call createConsent or getConsents for that
\* submission); createConsent is only ever called by the step in which
\* signMessage resolved.
C5_SigningFailureAborts ==
    [][ /\ cmLast'.op = "signRejected" =>
              /\ cmLast'.calls = <<>>
              /\ BagCardinality(cmFlows') = BagCardinality(cmFlows) - 1
              /\ \A g \in BagToSet(cmFlows') :
                     CopiesIn(g, cmFlows') <= CopiesIn(g, cmFlows)
        /\ \A c \in IssuedTo("createConsent") : cmLast'.op = "signResolved"
      ]_vars

\* C5 witness: a signature was refused
C5_Witness ==
    /\ cmLast.op = "signRejected"
    /\ cmLast.alert = "Failed to create consent: Network Error"

\* C6: a submit that passes validation signs "I consent to: {purpose} for
\* patient: {patientId}" built from the form as submitted; when the
\* signature arrives, exactly one createConsent call is issued, carrying the
\* submitted patientId and purpose, the account of the submit, the signature
\* and the very message that was signed.
C6_CreatePayload ==
    [][ /\ (cmLast'.op = "handleCreateConsent" /\ cmLast'.calls # <<>>) =>
              /\ ~Invalid(account, cm.formData)
              /\ cmLast'.calls =
                     <<Call("signMessage",
                            <<"I consent to: " \o cm.formData.purpose
                              \o " for patient: " \o cm.formData.patientId>>)>>
              /\ \E f \in BagToSet(cmFlows') :
                     /\ CopiesIn(f, cmFlows') = CopiesIn(f, cmFlows) + 1
                     /\ f.pc = "signMessage"
                     /\ f.formData = cm.formData
                     /\ f.account = account
                     /\ f.message = cmLast'.calls[1].args[1]
        /\ cmLast'.op = "signResolved" =>
              \E f \in InFlight, g \in Signatures :
                 /\ f.pc = "signMessage"
                 /\ CopiesIn(f, cmFlows') = CopiesIn(f, cmFlows) - 1
                 /\ cmLast'.calls =
                        <<Call("createConsent",
                               <<[patientId |-> f.formData.patientId,
                                  purpose |-> f.formData.purpose,
                                  patientWalletAddress |-> f.account,
                                  signature |-> g,
                                  message |-> f.message]>>)>>
                 /\ f.message = "I consent to: " \o f.formData.purpose
                                \o " for patient: " \o f.formData.patientId
      ]_vars

\* C6 witness: the payload of the scenario P-001 / Research Study
\* Participation / 0xSIG was submitted
C6_Witness ==
    /\ cmLast.op = "signResolved"
    /\ cmLast.calls =
           <<Call("createConsent",
                  <<[patientId |-> "P-001",
                     purpose |-> "Research Study Participation",
                     patientWalletAddress |-> "0xABCD",
                     signature |-> "0xSIG",
                     message |-> "I consent to: Research Study Participation for patient: P-001"]>>)>>

FormAndListKept ==
    /\ cm'.formData = cm.formData
    /\ cm'.showCreateForm = cm.showCreateForm
    /\ cm'.consents = cm.consents

\* C7: no step of a create-consent flow touches formData, showCreateForm or
\* the consents list before createConsent has succeeded: the submit and the
\* signing leave them alone, and a failure at signing or at submission
\* leaves them alone and raises a "Failed to create consent" alert.  After
\* a successful createConsent the list is re-fetched, and only once that
\* fetch has settled is formData emptied and the form hidden.
C7_AllOrNothing ==
    [][ /\ cmLast'.op \in {"handleCreateConsent", "signResolved"} => FormAndListKept
        /\ cmLast'.op \in {"signRejected", "createRejected"} =>
              /\ FormAndListKept
              /\ cmLast'.calls = <<>>
              /\ cmLast'.alert \in
                     {"Failed to create consent: " \o orElse(m, "Unknown error") :
                          m \in ErrMessages}
        /\ cmLast'.op = "createResolved" =>
              /\ FormAndListKept
              /\ \E f \in InFlight :
                     /\ f.kind = "create" /\ f.pc = "createConsent"
                     /\ cmLast'.calls = <<getConsentsCall(f.filterStatus)>>
        /\ cmLast'.op = "createDone" =>
              /\ \E f \in InFlight : f.kind = "create" /\ f.pc = "getConsents"
              /\ cm'.formData = [patientId |-> "", purpose |-> ""]
              /\ ~cm'.showCreateForm
              /\ cmLast'.alert = "Consent created successfully!"
      ]_vars

\* C7 witness: a submission failed at the backend with the form still
\* filled in and shown
C7_Witness ==
    /\ cmLast.op = "createRejected"
    /\ cm.formData = [patientId |-> "P-001",
                      purpose |-> "Research Study Participation"]
    /\ cm.showCreateForm

(***************************************************************************)
(* Properties of PatientList (checked under SpecPatients).                 *)
(***************************************************************************)
\* C8 as stated: every burst of keystrokes ends in exactly one getPatients
\* fetch, issued when the debounce timer fires.
C8_ExactlyOneFetchPerBurst ==
    [][ plLast'.op = "debounceFired" => Len(plLast'.calls) = 1 ]_vars

\* C8, amended: a keystroke fetches nothing; the timer fires once per burst,
\* no earlier than 300 ms after the last keystroke, and sets the search term
\* to the final input value; that firing issues one getPatients fetch, for
\* page 1 and the final value, when the final value differs from the search
\* term in effect or the current page is not 1, and no fetch otherwise.
C8_DebouncedSearch ==
    [][ /\ plLast'.op = "handleSearch" =>
              /\ plLast'.calls = <<>>
              /\ pl' = pl /\ plReqs' = plReqs
        /\ plLast'.op = "debounceFired" =>
              /\ plKey.since >= 300
              /\ pl'.searchTerm = plKey.value
              /\ ~plTimer'.pending
              /\ plLast'.calls =
                     IF plKey.value # pl.searchTerm \/ pl.currentPage # 1
                     THEN <<Call("getPatients", <<1, 10, plKey.value>>)>>
                     ELSE <<>>
      ]_vars

\* C8 witness: a burst ended in the fetch of its final value
C8_Witness ==
    /\ plLast.op = "debounceFired"
    /\ plLast.calls = <<Call("getPatients", <<1, 10, "ann">>)>>
    /\ pl.searchTerm = "ann"
    /\ plKey.value = "ann"

\* C9: a step that changes the search term (the debounced search firing or
\* Clear) leaves currentPage at 1 and issues exactly one getPatients
\* request, for page 1 and the new term.
C9_SearchResetsPage ==
    [][ pl'.searchTerm # pl.searchTerm =>
           /\ plLast'.op \in {"debounceFired", "clearSearch"}
           /\ pl'.currentPage = 1
           /\ plLast'.calls = <<Call("getPatients", <<1, 10, pl'.searchTerm>>)>>
           /\ plReqs' = plReqs (+) SetToBag({[page |-> 1, term |-> pl'.searchTerm]})
      ]_vars

\* C9 witness: Clear was pressed while page 2 of a search was displayed
C9_Witness ==
    /\ plLast.op = "clearSearch"
    /\ pl.currentPage = 1
    /\ pl.searchTerm = ""
    /\ pl.pagination # <<>>
    /\ pl.pagination[1].page = 2
    /\ plLast.calls = <<Call("getPatients", <<1, 10, "">>)>>

InRange(st, newPage) ==
    /\ newPage >= 1
    /\ st.pagination # <<>>
    /\ newPage <= st.pagination[1].totalPages

\* C10: in every state, handlePageChange(newPage) leaves currentPage as it
\* is when newPage < 1, newPage > pagination.totalPages or pagination is
\* unset, and sets it to newPage otherwise; a page button whose page is out
\* of range changes nothing and fetches nothing.
C10_PageChangeInRangeOnly ==
    /\ [](\A n \in PageArgs :
             handlePageChange(pl, n) = IF InRange(pl, n) THEN n ELSE pl.currentPage)
    /\ [][ plLast'.op = "handlePageChange" =>
              IF InRange(pl, plLast'.arg)
              THEN pl'.currentPage = plLast'.arg
              ELSE /\ pl' = pl
                   /\ plReqs' = plReqs
                   /\ plLast'.calls = <<>>
         ]_vars

\* C10 witness: Next was pressed on a page beyond the last one and nothing
\* happened
C10_Witness ==
    /\ plLast.op = "handlePageChange"
    /\ pl.pagination # <<>>
    /\ plLast.arg > pl.pagination[1].totalPages
    /\ pl.currentPage # plLast.arg
    /\ plLast.calls = <<>>

(***************************************************************************)
(* Properties of the page-number buttons (checked under SpecPageNumbers).  *)
(***************************************************************************)
\* C11: for every totalPages in 1..100 and currentPage in 1..totalPages the
\* page-number window has min(5, totalPages) entries, each the one before
\* it plus one, all within 1..totalPages, and currentPage is one of them.
C11_PageWindow ==
    /\ Len(pw.pages) = Min(5, pw.totalPages)
    /\ \A k \in 1..(Len(pw.pages) - 1) : pw.pages[k + 1] = pw.pages[k] + 1
    /\ \E k \in 1..Len(pw.pages) : pw.pages[k] = pw.currentPage
    /\ \A k \in 1..Len(pw.pages) : pw.pages[k] \in 1..pw.totalPages

\* C11 witness: on page 98 of 100 the window is held back at the last pages
C11_Witness ==
    /\ pw.totalPages = 100
    /\ pw.currentPage = 98
    /\ pw.pages = <<96, 97, 98, 99, 100>>

(***************************************************************************)
(* Properties of PatientDetail (checked under SpecDetail).                 *)
(***************************************************************************)
\* C12: when getPatient fails, the step reports the error, ends loading,
\* calls no getPatientRecords and leaves records empty; and when the one
\* fetch of the view has ended with getPatient having failed or returned an
\* empty value, the error / 'Patient not found' view is shown and records
\* is empty.
C12_NotFoundKeepsNoRecords ==
    /\ [][ pdLast'.op = "getPatientRejected" =>
              /\ pd'.error # NULL
              /\ ~pd'.loading
              /\ pd'.records = <<>>
              /\ pdLast'.calls = <<>>
         ]_vars
    /\ [](  ( /\ pdLast.solo
              /\ pdFlows = EmptyBag
              /\ pdLast.op \in {"getPatientRejected", "recordsResolved"}
              /\ pd.patient = <<>> )
           => /\ PdErrorView
              /\ pd.records = <<>> )

(***************************************************************************)
(* Properties of formatTimeAgo (checked under SpecTimeAgo).                *)
(***************************************************************************)
\* a timestamp that denotes an instant: a date string, or a number of
\* milliseconds (0, which the code takes for a missing timestamp, aside)
ValidTimestamp(timestamp) ==
    /\ timestamp.type \in {"number", "iso"}
    /\ ~(timestamp.type = "number" /\ timestamp.day = 0 /\ timestamp.ms = 0)

ShortDates == {MonthNames[m] \o " " \o ToString(d) : m \in 1..12, d \in 1..31}

C14_InvalidTimestampIsEmpty ==
    row.timestamp.type \in {"undefined", "null", "empty", "text", "symbol"}
        => row.timeAgo = ""

\* C14 witness: a row whose timestamp `new Date` throws on shows no time
C14_Witness ==
    /\ row.timestamp.type = "symbol"
    /\ newDate(row.timestamp).threw
    /\ row.timeAgo = ""

(***************************************************************************)
(* Properties of formatAmount (checked under SpecAmount).                  *)
(***************************************************************************)
NumericAmount(amount) == amount.type \in {"number", "string"}

\* the amount is greater than 10^15 = 1000000 * 10^9
Above1e15(amount) == amount.hi > 1000000 \/ (amount.hi = 1000000 /\ amount.lo # 0)

CurrencyShown == IF row.currency = UNDEFINED THEN "ETH" ELSE row.currency

\* C15 as claimed: every numeric amount greater than 10^15 is shown divided
\* by 10^18 with 4 decimals and the currency, every other numeric amount
\* is shown as it is, followed by the currency.
C15_ScalesAbove1e15 ==
    NumericAmount(row.amount) =>
        IF Above1e15(row.amount)
        THEN row.amountText = toFixed4(row.amount) \o " " \o CurrencyShown
        ELSE row.amountText = amountText(row.amount) \o " " \o CurrencyShown

\* C15 as the code has it: as claimed for every numeric amount but the
\* number 0, which is shown "0" with no currency, as a missing amount is
\* (2 * 10^18 is "2.0000 ETH", 5 is "5 ETH", 10^15 is not scaled).
C15_ScalesAbove1e15ExceptZero ==
    /\ NumericAmount(row.amount) /\ ~NoAmount(row.amount) =>
          IF Above1e15(row.amount)
          THEN row.amountText = toFixed4(row.amount) \o " " \o CurrencyShown
          ELSE row.amountText = amountText(row.amount) \o " " \o CurrencyShown
    /\ NoAmount(row.amount) => row.amountText = "0"
    /\ row.amount = Amount("number", 2000000000, 0) /\ row.currency = "ETH"
          => row.amountText = "2.0000 ETH"
    /\ row.amount = Amount("number", 0, 5) /\ row.currency = "ETH"
          => row.amountText = "5 ETH"
    /\ row.amount.hi = 1000000 /\ row.amount.lo = 0 /\ row.currency = "ETH"
          => row.amountText = "1000000000000000 ETH"

\* C15 witness: 10^15 + 1 is the smallest amount of the inputs shown scaled
C15_Witness ==
    /\ row.amount = Amount("number", 1000000, 1)
    /\ row.currency = "USDC"
    /\ row.amountText = "0.0010 USDC"

(***************************************************************************)
(* Properties of StatsDashboard (checked under SpecStats).                 *)
(***************************************************************************)
\* C16: whenever the statistics are rendered, whatever counts of the
\* snapshot are 0 or absent, neither derived metric is NaN; with
\* totalPatients = 0 Avg Records per Patient is "0" and with
\* totalConsents = 0 Consent Activity is "No data".
C16_NoNaN ==
    SdMainView =>
        LET stats == sd.stats[1] IN
        /\ consentActivity(stats) # "NaN% Active"
        /\ avgRecordsPerPatient(stats) # "NaN"
        /\ stats.totalPatients = <<0>> => avgRecordsPerPatient(stats) = "0"
        /\ stats.totalConsents = <<0>> => consentActivity(stats) = "No data"

(***************************************************************************)
(* Properties of overlapping requests.                                     *)
(***************************************************************************)
\* C17 (under SpecPatients): once no getPatients request is in flight, the
\* answer that was applied last, which is the one displayed, is the answer
\* to the request for the current currentPage and searchTerm.
C17_StaleResponsesTolerated ==
    (plReqs = EmptyBag /\ plShown # <<>>)
        => plShown[1] = Request(pl.currentPage, pl.searchTerm)

\* the getConsents requests in flight: the flows suspended at getConsents,
\* by the filter they asked with
ConsentFetches == [f \in {g \in InFlight : g.pc = "getConsents"} |-> cmFlows[f]]

\* C18 (under SpecPatients and SpecConfirm): no two getPatients requests
\* for the same page and search term are in flight together, and no two
\* getConsents requests for the same filter are.
C18_OneFetchPerStateSet ==
    /\ \A q \in BagToSet(plReqs) : CopiesIn(q, plReqs) = 1
    /\ \A filter \in FilterStatuses :
          BagCardinality([f \in {g \in DOMAIN ConsentFetches :
                                    g.filterStatus = filter}
                             |-> ConsentFetches[f]]) <= 1

(***************************************************************************)
(* Properties of the debounce timer at teardown (under SpecTeardown).      *)
(***************************************************************************)
\* C19: every keystroke restarts the timer from 0 with the value typed, the
\* timer is not pending after it fired, and once PatientList is unmounted
\* the debounced callback does not fire.
C19_TimerClearedOnUnmount ==
    /\ [][ plLast'.op = "handleSearch" =>
              plTimer' = [pending |-> TRUE, value |-> plInput', elapsed |-> 0]
         ]_vars
    /\ [][ plLast'.op = "debounceFired" => plTimer.pending /\ ~plTimer'.pending ]_vars
    /\ [][ ~plMounted => plLast'.op # "debounceFired" ]_vars

(***************************************************************************)
(* Properties of the confirm dialog while a commit is in flight (under     *)
(* SpecConfirm).                                                           *)
(***************************************************************************)
\* C20: while an updateConsent started by handleConfirm is in flight, no
\* step is a handleConfirm that calls updateConsent again and no step is a
\* handleCancel.
C20_ConfirmIsLock ==
    [][ (\E f \in InFlight : f.kind = "confirm" /\ f.pc = "updateConsent")
            => /\ ~(cmLast'.op = "handleConfirm" /\ cmLast'.calls # <<>>)
               /\ cmLast'.op # "handleCancel"
      ]_vars

(***************************************************************************)
(* Properties of the refresh after a mutation (under SpecMutations).       *)
(***************************************************************************)
\* C21: the step in which updateConsent or createConsent resolves issues
\* exactly one getConsents request, takes the flow on to await it and
\* leaves the displayed list alone; the step in which that request is
\* answered sets consents to the list of the answer, whatever was
\* displayed; the step in which updateConsent or createConsent rejects
\* issues no call, starts no getConsents request and leaves the list alone.
C21_RefetchAfterMutation ==
    [][ /\ cmLast'.op \in {"updateResolved", "createResolved"} =>
              /\ Len(cmLast'.calls) = 1
              /\ cmLast'.calls[1].api = "getConsents"
              /\ \E f \in InFlight :
                     /\ f.pc \in {"updateConsent", "createConsent"}
                     /\ cmFlows' = Ended(f)
                                       (+) SetToBag({[f EXCEPT !.pc = "getConsents"]})
              /\ cm'.consents = cm.consents
        /\ (/\ cmLast'.op \in {"confirmDone", "createDone"}
            /\ cmLast'.response[1].ok) =>
              cm'.consents = cmLast'.response[1].consents
        /\ cmLast'.op \in {"updateRejected", "createRejected"} =>
              /\ cmLast'.calls = <<>>
              /\ ConsentFetches' = ConsentFetches
              /\ cm'.consents = cm.consents
      ]_vars
\* C21 witness: the refresh after a createConsent replaced a displayed list
\* of one consent by the two consents of the answer
C21_Witness ==
    /\ cmLast.op = "createDone"
    /\ cmLast.response # <<>>
    /\ cmLast.response[1].ok
    /\ Len(cm.consents) = 2
    /\ cm.consents = cmLast.response[1].consents

(***************************************************************************)
(* Properties of the badges of a consent card (under SpecBadges).          *)
(***************************************************************************)
StatusEnum == {"active", "pending", "revoked", "expired", "unknown"}

PurposeEnum == {"research", "data-sharing", "analytics", "insurance", "other"}

\* a and b are the capital and the small form of one letter
CasePair(a, b) ==
    \E k \in 1..26 : {a, b} = {UpperCaseLetters[k], LowerCaseLetters[k]}

\* x and y differ in letter case only
EqualIgnoringCase(x, y) ==
    /\ Len(x) = Len(y)
    /\ \A i \in 1..Len(x) : x[i] = y[i] \/ CasePair(x[i], y[i])

SameIgnoringCase(v, w) ==
    /\ v.type = w.type
    /\ EqualIgnoringCase(v.chars, w.chars)

\* word occurs in chars, in whatever letter case
Occurs(word, chars) ==
    \E i \in 0..(Len(chars) - Len(word)) :
        EqualIgnoringCase(SubSeq(chars, i + 1, i + Len(word)), word)

\* C22: for every status, a string or missing, getStatusBadgeClass returns
\* "status-badge " followed by one of active, pending, revoked, expired and
\* unknown: the status itself when the string is one of the four in
\* whatever letter case, and unknown for every other string and for a
\* missing status.  For every purpose that is a string, getPurposeType
\* returns one of research, data-sharing, analytics, insurance and other,
\* and other exactly when none of "research", "data sharing", "analytics",
\* "insurance" occurs in it in whatever letter case.  Two statuses, and two
\* purposes, that differ in letter case only get the same result.
C22_ClosedEnums ==
    /\ \E e \in StatusEnum : getStatusBadgeClass(card.status) = "status-badge " \o e
    /\ \A e \in {<<active, "active">>, <<pending, "pending">>,
                 <<revoked, "revoked">>, <<expired, "expired">>} :
          getStatusBadgeClass(card.status) = "status-badge " \o e[2]
              <=> (/\ card.status.type = "string"
                   /\ EqualIgnoringCase(card.status.chars, e[1]))
    /\ card.status.type # "string" =>
          getStatusBadgeClass(card.status) = "status-badge unknown"
    /\ \A status \in CardStatuses :
          SameIgnoringCase(status, card.status) =>
              getStatusBadgeClass(status) = getStatusBadgeClass(card.status)
    /\ card.purpose.type = "string" =>
          /\ getPurposeType(card.purpose) \in PurposeEnum
          /\ getPurposeType(card.purpose) = "other"
                 <=> \A word \in {research, dataSharing, analytics, insurance} :
                        ~Occurs(word, card.purpose.chars)
          /\ ~card.thrown
          /\ card.purposeClass = "purpose-badge " \o getPurposeType(card.purpose)
          /\ card.statusClass = getStatusBadgeClass(card.status)
          /\ \A purpose \in CardPurposes :
                SameIgnoringCase(purpose, card.purpose) =>
                    getPurposeType(purpose) = getPurposeType(card.purpose)

\* C22 witness: the card of a consent whose status is "ACTIVE" and whose
\* purpose is "DATA SHARING PLAN"
C22_Witness ==
    /\ card.status = String(<<"A", "C", "T", "I", "V", "E">>)
    /\ card.statusClass = "status-badge active"
    /\ card.purpose = String(
           <<"D", "A", "T", "A", " ", "S", "H", "A", "R", "I", "N", "G", " ", "P", "L", "A", "N">>)
    /\ card.purposeClass = "purpose-badge data-sharing"

(***************************************************************************)
(* Properties of the loading flag (under SpecTransactions; the same        *)
(* formula is evaluated under SpecConfirm and SpecPatients for the other   *)
(* two lists).                                                             *)
(***************************************************************************)
\* C23: in every state, loading of ConsentManagement is true while one of
\* its getConsents requests is in flight, loading of PatientList is true
\* while one of its getPatients requests is in flight, and loading of
\* TransactionHistory is true while one of its getTransactions requests is
\* in flight.
C23_LoadingWhileInFlight ==
    /\ (\E f \in InFlight : f.pc = "getConsents") => cm.loading
    /\ (plMounted /\ plReqs # EmptyBag) => pl.loading
    /\ thReqs # EmptyBag => th.loading

(***************************************************************************)
(* Properties of the Clear button (under SpecPatients).                    *)
(***************************************************************************)
\* C24: from the press of Clear until the next keystroke in the search
\* input, searchTerm is empty.
C24_ClearStaysEmpty == plKey.cleared => pl.searchTerm = ""

(***************************************************************************)
(* Properties of currentPage (under SpecPatients).                         *)
(***************************************************************************)
\* C25: in every state currentPage is at least 1, and while pagination is
\* set and no getPatients request is in flight currentPage is at most
\* pagination.totalPages (an empty result, whose totalPages is 0, is left
\* aside: page 1 of it is taken to be in range).
C25_CurrentPageInRange ==
    /\ pl.currentPage >= 1
    /\ (/\ pl.pagination # <<>>
        /\ pl.pagination[1].totalPages >= 1
        /\ plReqs = EmptyBag)
           => pl.currentPage <= pl.pagination[1].totalPages

(***************************************************************************)
(* Properties of the processing flag (under SpecForm).                     *)
(***************************************************************************)
CreateFlows == {f \in InFlight : f.kind = "create"}

\* C26: in every state processing is true if and only if a
\* handleCreateConsent flow is in flight (awaiting signMessage,
\* createConsent or the refresh); no step taken while processing is true
\* starts a flow; and, the wallet and the backend answering in the end,
\* processing that is true becomes false again.
C26_ProcessingWhileCreating ==
    /\ [](cm.processing <=> CreateFlows # {})
    /\ [](\A f \in CreateFlows : CopiesIn(f, cmFlows) = 1 /\ CreateFlows = {f})
    /\ [][ cm.processing =>
              ~(cmLast'.op = "handleCreateConsent" /\ cmLast'.calls # <<>>) ]_vars
    /\ (cm.processing ~> ~cm.processing)

\* C26 witness: a submission failed at the backend and processing is off
\* again, with no flow left
C26_Witness ==
    /\ cmLast.op = "createRejected"
    /\ ~cm.processing
    /\ CreateFlows = {}
====
